---------------------------- MODULE Spec2Model ----------------------------
(***************************************************************************)
(* Geometric core of the medical 3D imaging viewer: the coordinate-system  *)
(* algebra (backend/app/core/coordinate.py), the pinhole camera functions  *)
(* (backend/app/core/camera.py) and the C-arm gantry with its LPS adapter  *)
(* (backend/app/core/carm.py).                                             *)
(*                                                                         *)
(* numpy's float64 arithmetic is modelled by exact rational arithmetic: a  *)
(* number is a pair <<n, d>> in lowest terms with d > 0; a division by     *)
(* zero gives <<1, 0>>, <<-1, 0>> or <<0, 0>> (numpy's inf, -inf, nan).    *)
(* A vector is a tuple of numbers, a matrix a tuple of rows.               *)
(***************************************************************************)
EXTENDS Integers, Sequences, FiniteSets, TLC

VARIABLES
    op,       \* name of the last operation called ("init" before any call)
    args,     \* its arguments, and the operands' values before the call
    ret,      \* what it returned: [raised |-> "None" or an exception, value |-> ...]
    pc,       \* the PatientCoordinates objects: id -> [coords, coord_system]
    carms,    \* the CArm objects: id -> record of fields, or NoObject
    lists,    \* the list objects passed as imager_pixel_spacing: id -> contents
    adapter,  \* the CArmLPSAdapter object: [carm |-> id of the wrapped CArm]
    lastSet,  \* history: per CArm, the last argument of set_target_object
    volume,   \* the VolumeDicomHandler object, or NoObject
    pixelLog  \* history: the pixel data reads and the stacks made of them

vars == <<op, args, ret, pc, carms, lists, adapter, lastSet, volume, pixelLog>>

---------------------------------------------------------------------------
(* Bounds of the model.                                                    *)

\* PatientCoordinates operands have components in 0..MaxCoord.
MaxCoord == 1

\* A point set (an (N, 3) array) has 1..MaxN rows.
MaxN == 3

\* Gantry angles are the multiples of 90 degrees up to this many quarter
\* turns: there sine and cosine are exact.
MaxQuarterTurns == 2

---------------------------------------------------------------------------
(* numpy arithmetic on exact rationals.                                    *)

Abs(n) == IF n < 0 THEN 0 - n ELSE n

Sign(n) == IF n > 0 THEN 1 ELSE IF n < 0 THEN 0 - 1 ELSE 0

RECURSIVE Gcd(_, _)
Gcd(a, b) == IF b = 0 THEN a ELSE Gcd(b, a % b)

\* The number n/d in lowest terms; n/0 is inf, -inf or nan as in numpy.
Frac(n, d) ==
    IF d = 0 THEN <<Sign(n), 0>>
    ELSE LET g == Gcd(Abs(n), Abs(d))
         IN  <<(Sign(d) * n) \div g, Abs(d) \div g>>

Q(n) == <<n, 1>>

\* (Whole numbers, the common case, need no reduction.)
RAdd(a, b) ==
    IF a[2] = 1 /\ b[2] = 1 THEN <<a[1] + b[1], 1>>
    ELSE Frac(a[1] * b[2] + b[1] * a[2], a[2] * b[2])

RNeg(a) == <<0 - a[1], a[2]>>

RSub(a, b) == RAdd(a, RNeg(b))

RMul(a, b) ==
    IF a[2] = 1 /\ b[2] = 1 THEN <<a[1] * b[1], 1>>
    ELSE Frac(a[1] * b[1], a[2] * b[2])

RDiv(a, b) == Frac(a[1] * b[2], a[2] * b[1])

\* An array given elementwise, computed once as numpy computes it (a tuple,
\* where a function expression would be evaluated anew at every use).
Arr(f) == f \o <<>>

\* Integer vector / matrix literals as rational ones.
QV(v) == Arr([i \in DOMAIN v |-> Q(v[i])])

QM(m) == Arr([i \in DOMAIN m |-> QV(m[i])])

VAdd(u, v) == Arr([i \in DOMAIN u |-> RAdd(u[i], v[i])])

VSub(u, v) == Arr([i \in DOMAIN u |-> RSub(u[i], v[i])])

VNeg(u) == Arr([i \in DOMAIN u |-> RNeg(u[i])])

VMul(u, v) == Arr([i \in DOMAIN u |-> RMul(u[i], v[i])])

VScale(u, s) == Arr([i \in DOMAIN u |-> RMul(u[i], s)])

VDivScalar(u, s) == Arr([i \in DOMAIN u |-> RDiv(u[i], s)])

RECURSIVE RSum(_, _, _)
RSum(f, lo, hi) == IF lo > hi THEN Q(0) ELSE RAdd(f[lo], RSum(f, lo + 1, hi))

Dot(u, v) == RSum(VMul(u, v), 1, Len(u))

\* m.T for a matrix with at least one row.
Transpose(m) ==
    Arr([j \in 1..Len(m[1]) |-> Arr([i \in 1..Len(m) |-> m[i][j]])])

\* m @ v for a matrix m and a 1-D array v.
MatVec(m, v) == Arr([i \in 1..Len(m) |-> Dot(m[i], v)])

\* a @ b for two matrices whose inner dimensions agree.
MatMul(a, b) ==
    LET bT == Transpose(b)
    IN  Arr([i \in 1..Len(a) |-> Arr([j \in 1..Len(bT) |-> Dot(a[i], bT[j])])])

\* np.eye(3)
Eye3 == QM(<<<<1, 0, 0>>, <<0, 1, 0>>, <<0, 0, 1>>>>)

\* The signed cofactor of m[i][j] in a 3x3 matrix (indices taken cyclically).
Cofactor(m, i, j) ==
    LET i1 == (i % 3) + 1
        i2 == ((i + 1) % 3) + 1
        j1 == (j % 3) + 1
        j2 == ((j + 1) % 3) + 1
    IN  RSub(RMul(m[i1][j1], m[i2][j2]), RMul(m[i1][j2], m[i2][j1]))

Det3(m) == RSum(Arr([j \in 1..3 |-> RMul(m[1][j], Cofactor(m, 1, j))]), 1, 3)

\* np.linalg.inv of a non-singular 3x3 matrix: the adjugate over the determinant.
Inv3(m) ==
    LET det == Det3(m)
    IN  Arr([i \in 1..3 |-> Arr([j \in 1..3 |-> RDiv(Cofactor(m, j, i), det)])])

\* Python values whose type the code tests.
None == [type |-> "NoneType"]

NdArray(m) == [type |-> "ndarray", matrix |-> m]

Float(q) == [type |-> "float", value |-> q]

\* An attribute the object does not have yet.
Unset == [type |-> "unset"]

RotationObject(m) == [type |-> "Rotation", matrix |-> m]

Returned(v) == [raised |-> "None", value |-> v]

Raised(e) == [raised |-> e, value |-> <<>>]

---------------------------------------------------------------------------
(* coordinate.py: CoordinateSystem, PatientPosition, TransformationMatrix  *)

CoordinateSystem == {"LPS", "RAS", "ILA"}

PatientPosition == {"HFS", "FFS"}

\* A value that is no member of either enumeration (a raw string, say).
NotAMember == {"XYZ"}

COORDINATE_TRANSFORM_SignSlip ==
    [RAS |-> [LPS |-> QM(<<<<-1, 0, 0>>, <<0, -1, 0>>, <<0, 0, 1>>>>),
              ILA |-> QM(<<<<0, 0, -1>>, <<-1, 0, 0>>, <<0, 1, 0>>>>)],
     LPS |-> [RAS |-> QM(<<<<-1, 0, 0>>, <<0, -1, 0>>, <<0, 0, 1>>>>),
              ILA |-> QM(<<<<0, 0, -1>>, <<1, 0, 0>>, <<0, -1, 0>>>>)],
     ILA |-> [LPS |-> QM(<<<<0, 1, 0>>, <<0, 0, 1>>, <<-1, 0, 0>>>>),
              RAS |-> QM(<<<<0, -1, 0>>, <<0, 0, 1>>, <<-1, 0, 0>>>>)]]

COORDINATE_TRANSFORM ==
    [RAS |-> [LPS |-> QM(<<<<-1, 0, 0>>, <<0, -1, 0>>, <<0, 0, 1>>>>),
              ILA |-> QM(<<<<0, 0, -1>>, <<-1, 0, 0>>, <<0, 1, 0>>>>)],
     LPS |-> [RAS |-> QM(<<<<-1, 0, 0>>, <<0, -1, 0>>, <<0, 0, 1>>>>),
              ILA |-> QM(<<<<0, 0, -1>>, <<1, 0, 0>>, <<0, -1, 0>>>>)],
     ILA |-> [LPS |-> QM(<<<<0, 1, 0>>, <<0, 0, -1>>, <<-1, 0, 0>>>>),
              RAS |-> QM(<<<<0, -1, 0>>, <<0, 0, 1>>, <<-1, 0, 0>>>>)]]

POSITION_TRANSFORM ==
    [HFS |-> [FFS |-> QM(<<<<-1, 0, 0>>, <<0, 1, 0>>, <<0, 0, -1>>>>)],
     FFS |-> [HFS |-> QM(<<<<-1, 0, 0>>, <<0, 1, 0>>, <<0, 0, -1>>>>)]]

\* The result carries, besides the return value or the exception, whether
\* the call went on to read the table (line 69) or returned before it.
get_coordinate_transform_matrix_NoShortcut(from_cs, to_cs) ==
    IF \/ from_cs \notin DOMAIN COORDINATE_TRANSFORM
       \/ to_cs \notin DOMAIN COORDINATE_TRANSFORM[from_cs]
    THEN [raised |-> "ValueError", value |-> <<>>, lookup |-> TRUE]
    ELSE [raised |-> "None", value |-> COORDINATE_TRANSFORM[from_cs][to_cs],
          lookup |-> TRUE]

get_coordinate_transform_matrix(from_cs, to_cs) ==
    IF from_cs = to_cs
    THEN [raised |-> "None", value |-> Eye3, lookup |-> FALSE]
    ELSE IF \/ from_cs \notin DOMAIN COORDINATE_TRANSFORM
            \/ to_cs \notin DOMAIN COORDINATE_TRANSFORM[from_cs]
         THEN [raised |-> "ValueError", value |-> <<>>, lookup |-> TRUE]
         ELSE [raised |-> "None",
               value |-> COORDINATE_TRANSFORM[from_cs][to_cs], lookup |-> TRUE]

get_position_transform_matrix(from_pos, to_pos) ==
    IF from_pos = to_pos
    THEN [raised |-> "None", value |-> Eye3, lookup |-> FALSE]
    ELSE IF \/ from_pos \notin DOMAIN POSITION_TRANSFORM
            \/ to_pos \notin DOMAIN POSITION_TRANSFORM[from_pos]
         THEN [raised |-> "ValueError", value |-> <<>>, lookup |-> TRUE]
         ELSE [raised |-> "None",
               value |-> POSITION_TRANSFORM[from_pos][to_pos], lookup |-> TRUE]

patient_to_world_transform_matrix_Swapped(patient_position, coord_system) ==
    LET p == get_position_transform_matrix(patient_position, "HFS")
        c == get_coordinate_transform_matrix(coord_system, "ILA")
    IN  IF p.raised # "None" THEN Raised(p.raised)
        ELSE IF c.raised # "None" THEN Raised(c.raised)
        ELSE Returned(MatMul(p.value, c.value))

patient_to_world_transform_matrix(patient_position, coord_system) ==
    LET t0 == Returned(Eye3)
        \* First transform to standard position (HFS)
        t1 == IF patient_position # "HFS"
              THEN LET m == get_position_transform_matrix(patient_position, "HFS")
                   IN  IF m.raised # "None" THEN Raised(m.raised)
                       ELSE Returned(MatMul(m.value, t0.value))
              ELSE t0
        \* Then transform to standard coordinate system (ILA)
        t2 == IF t1.raised # "None" THEN t1
              ELSE IF coord_system # "ILA"
              THEN LET m == get_coordinate_transform_matrix(coord_system, "ILA")
                   IN  IF m.raised # "None" THEN Raised(m.raised)
                       ELSE Returned(MatMul(m.value, t1.value))
              ELSE t1
    IN  t2

---------------------------------------------------------------------------
(* coordinate.py: PatientCoordinates.  An object is [coords, coord_system] *)
(* with coords a (3,) array.  An operator returns, besides its result, the *)
(* operands as the call leaves them.                                       *)

PatientCoordinates_init(coords, coord_system) ==
    [coords |-> coords, coord_system |-> coord_system]

\* isinstance(value, CoordinateBase) and isinstance(value, PatientCoordinates):
\* the objects are records with coords; the raw values carry a type.
IsCoordinateBase(value) == "coords" \in DOMAIN value

IsPatientCoordinates(value) == "coord_system" \in DOMAIN value

\* self.__class__(coords), the call with one argument: CoordinateBase takes
\* coords alone, PatientCoordinates.__init__ has a second required
\* parameter, coord_system.
NewOfClassOf(self, coords) ==
    IF IsPatientCoordinates(self)
    THEN Raised("TypeError")
    ELSE Returned([coords |-> coords])

\* numpy broadcasting of a (3,) array with a (3,) array or a scalar.
Broadcast(other) ==
    IF other.type = "ndarray"
    THEN other.matrix
    ELSE <<other.value, other.value, other.value>>

CoordinateBase_add(self, other) ==
    IF IsCoordinateBase(other)
    THEN NewOfClassOf(self, VAdd(self.coords, other.coords))
    ELSE IF other.type = "ndarray"
    THEN NewOfClassOf(self, VAdd(self.coords, Broadcast(other)))
    ELSE IF other.type \in {"int", "float"}
    THEN NewOfClassOf(self, VAdd(self.coords, Broadcast(other)))
    ELSE Raised("TypeError")

CoordinateBase_sub(self, other) ==
    IF IsCoordinateBase(other)
    THEN NewOfClassOf(self, VSub(self.coords, other.coords))
    ELSE IF other.type = "ndarray"
    THEN NewOfClassOf(self, VSub(self.coords, Broadcast(other)))
    ELSE IF other.type \in {"int", "float"}
    THEN NewOfClassOf(self, VSub(self.coords, Broadcast(other)))
    ELSE Raised("TypeError")

\* PatientCoordinates does not override __mul__.
CoordinateBase_mul(self, other) ==
    IF IsCoordinateBase(other) THEN Raised("TypeError")
    ELSE IF other.type \in {"int", "float"}
    THEN NewOfClassOf(self, VMul(self.coords, Broadcast(other)))
    ELSE IF other.type = "ndarray"
    THEN NewOfClassOf(self, VMul(self.coords, Broadcast(other)))
    ELSE Raised("TypeError")

PatientCoordinates_add_Unchecked(self, other) ==
    [ret |-> Returned(PatientCoordinates_init(VAdd(self.coords, other.coords),
                                              self.coord_system)),
     self |-> self, other |-> other]

PatientCoordinates_add(self, other) ==
    IF ~IsPatientCoordinates(other)
    THEN [ret |-> CoordinateBase_add(self, other), self |-> self, other |-> other]
    ELSE IF self.coord_system # other.coord_system
    THEN [ret |-> Raised("ValueError"), self |-> self, other |-> other]
    ELSE [ret |-> Returned(PatientCoordinates_init(
                      VAdd(self.coords, other.coords), self.coord_system)),
          self |-> self, other |-> other]

PatientCoordinates_sub(self, other) ==
    IF ~IsPatientCoordinates(other)
    THEN [ret |-> CoordinateBase_sub(self, other), self |-> self, other |-> other]
    ELSE IF self.coord_system # other.coord_system
    THEN [ret |-> Raised("ValueError"), self |-> self, other |-> other]
    ELSE [ret |-> Returned(PatientCoordinates_init(
                      VSub(self.coords, other.coords), self.coord_system)),
          self |-> self, other |-> other]

\* The result is [ret, self]: self is returned itself when it is in
\* new_system already.
PatientCoordinates_change_coordinate_system_Reversed(self, new_system) ==
    IF new_system \notin CoordinateSystem
    THEN [ret |-> Raised("ValueError"), self |-> self, same |-> FALSE]
    ELSE IF self.coord_system = new_system
    THEN [ret |-> Returned(self), self |-> self, same |-> TRUE]
    ELSE LET transform_matrix ==
                 get_coordinate_transform_matrix(new_system, self.coord_system)
         IN  [ret |-> Returned(PatientCoordinates_init(
                          MatVec(transform_matrix.value, self.coords), new_system)),
              self |-> self, same |-> FALSE]

PatientCoordinates_change_coordinate_system(self, new_system) ==
    IF new_system \notin CoordinateSystem
    THEN [ret |-> Raised("ValueError"), self |-> self, same |-> FALSE]
    ELSE IF self.coord_system = new_system
    THEN [ret |-> Returned(self), self |-> self, same |-> TRUE]
    ELSE LET transform_matrix ==
                 get_coordinate_transform_matrix(self.coord_system, new_system)
         IN  [ret |-> Returned(PatientCoordinates_init(
                          MatVec(transform_matrix.value, self.coords), new_system)),
              self |-> self, same |-> FALSE]

---------------------------------------------------------------------------
(* The coordinate algebra as a state machine: two PatientCoordinates       *)
(* objects, and calls of the class methods and operators on them.          *)

NoObject == [none |-> TRUE]

\* No slice's pixel data has been read and no voxel_array access made.
NoPixelRead == [reads |-> <<>>, stacks |-> 0, accesses |-> 0]

\* First operands: every point with components in 0..MaxCoord.
CoordsA == {QV(v) : v \in [1..3 -> 0..MaxCoord]}

\* Second operands.
CoordsB == {QV(<<1, 2, 3>>), QV(<<-2, 0, 5>>)}

CoordIdle ==
    /\ carms = <<>>
    /\ lists = <<>>
    /\ adapter = NoObject
    /\ lastSet = <<>>
    /\ volume = NoObject
    /\ pixelLog = NoPixelRead

InitCoord ==
    /\ op = "init"
    /\ args = <<>>
    /\ ret = Returned(<<>>)
    /\ pc \in {<<PatientCoordinates_init(a, s), PatientCoordinates_init(b, t)>> :
                  <<a, s, b, t>> \in CoordsA \X CoordinateSystem
                                      \X CoordsB \X CoordinateSystem}
    /\ CoordIdle

CallGetCoordinateTransform(from_cs, to_cs) ==
    /\ op' = "get_coordinate_transform_matrix"
    /\ args' = [from |-> from_cs, to |-> to_cs]
    /\ ret' = get_coordinate_transform_matrix(from_cs, to_cs)
    /\ UNCHANGED <<pc, carms, lists, adapter, lastSet, volume, pixelLog>>

CallGetPositionTransform(from_pos, to_pos) ==
    /\ op' = "get_position_transform_matrix"
    /\ args' = [from |-> from_pos, to |-> to_pos]
    /\ ret' = get_position_transform_matrix(from_pos, to_pos)
    /\ UNCHANGED <<pc, carms, lists, adapter, lastSet, volume, pixelLog>>

CallPatientToWorld(patient_position, coord_system) ==
    /\ op' = "patient_to_world_transform_matrix"
    /\ args' = [patient_position |-> patient_position,
                coord_system |-> coord_system]
    /\ ret' = patient_to_world_transform_matrix(patient_position, coord_system)
    /\ UNCHANGED <<pc, carms, lists, adapter, lastSet, volume, pixelLog>>

\* pc[i] + pc[j]
CallAdd(i, j) ==
    LET r == PatientCoordinates_add(pc[i], pc[j])
    IN  /\ op' = "add"
        /\ args' = [self |-> i, other |-> j, before |-> pc]
        /\ ret' = r.ret
        /\ pc' = [[pc EXCEPT ![j] = r.other] EXCEPT ![i] = r.self]
        /\ UNCHANGED <<carms, lists, adapter, lastSet, volume, pixelLog>>

\* pc[i] - pc[j]
CallSub(i, j) ==
    LET r == PatientCoordinates_sub(pc[i], pc[j])
    IN  /\ op' = "sub"
        /\ args' = [self |-> i, other |-> j, before |-> pc]
        /\ ret' = r.ret
        /\ pc' = [[pc EXCEPT ![j] = r.other] EXCEPT ![i] = r.self]
        /\ UNCHANGED <<carms, lists, adapter, lastSet, volume, pixelLog>>

NextCoord ==
    \/ \E a, b \in CoordinateSystem \cup NotAMember :
           CallGetCoordinateTransform(a, b)
    \/ \E a, b \in PatientPosition \cup NotAMember :
           CallGetPositionTransform(a, b)
    \/ \E p \in PatientPosition, c \in CoordinateSystem :
           CallPatientToWorld(p, c)
    \/ \E i, j \in 1..2 : CallAdd(i, j)
    \/ \E i, j \in 1..2 : CallSub(i, j)

SpecCoord == InitCoord /\ [][NextCoord]_vars

---------------------------------------------------------------------------
(* Properties of the coordinate algebra.                                   *)

\* C1: for distinct coordinate systems A, B the matrix returned for (A, B)
\* times the one for (B, A) is the identity and equals the transpose of the
\* one for (B, A); the same for the two patient positions.
C1_InverseIsTranspose ==
    /\ (/\ op = "get_coordinate_transform_matrix"
        /\ args.from \in CoordinateSystem
        /\ args.to \in CoordinateSystem
        /\ args.from # args.to)
       => LET back == get_coordinate_transform_matrix(args.to, args.from)
          IN  /\ ret.raised = "None"
              /\ back.raised = "None"
              /\ MatMul(ret.value, back.value) = Eye3
              /\ ret.value = Transpose(back.value)
    /\ (/\ op = "get_position_transform_matrix"
        /\ args.from \in PatientPosition
        /\ args.to \in PatientPosition
        /\ args.from # args.to)
       => LET back == get_position_transform_matrix(args.to, args.from)
          IN  /\ ret.raised = "None"
              /\ back.raised = "None"
              /\ MatMul(ret.value, back.value) = Eye3
              /\ ret.value = Transpose(back.value)

C1_Witness ==
    /\ op = "get_coordinate_transform_matrix"
    /\ args = [from |-> "ILA", to |-> "LPS"]
    /\ ret.raised = "None"
    /\ ret.value # Eye3

\* C2: patient_to_world_transform_matrix(p, c) is the coordinate transform
\* c -> ILA times the position transform p -> HFS (the position conversion
\* acts on the point first); for (HFS, ILA) it is the identity.
C2_PatientToWorldComposition ==
    (op = "patient_to_world_transform_matrix")
       => /\ ret.raised = "None"
          /\ ret.value =
                MatMul(get_coordinate_transform_matrix(args.coord_system, "ILA").value,
                       get_position_transform_matrix(args.patient_position, "HFS").value)
          /\ (args.patient_position = "HFS" /\ args.coord_system = "ILA")
                => ret.value = Eye3

C2_Witness ==
    /\ op = "patient_to_world_transform_matrix"
    /\ args = [patient_position |-> "FFS", coord_system |-> "LPS"]
    /\ ret.raised = "None"
    /\ ret.value = QM(<<<<0, 0, 1>>, <<-1, 0, 0>>, <<0, -1, 0>>>>)

\* C3: a call with equal arguments returns the identity without reading the
\* table, whether or not the value has a table entry; a call with different
\* arguments and no direct entry raises and returns no matrix.
C3_IdentityShortcutAndUnsupported ==
    /\ (op = "get_coordinate_transform_matrix")
       => /\ (args.from = args.to)
                => (ret.raised = "None" /\ ret.value = Eye3 /\ ~ret.lookup)
          /\ (/\ args.from # args.to
              /\ \/ args.from \notin DOMAIN COORDINATE_TRANSFORM
                 \/ args.to \notin DOMAIN COORDINATE_TRANSFORM[args.from])
                => (ret.raised = "ValueError" /\ ret.value = <<>>)
    /\ (op = "get_position_transform_matrix")
       => /\ (args.from = args.to)
                => (ret.raised = "None" /\ ret.value = Eye3 /\ ~ret.lookup)
          /\ (/\ args.from # args.to
              /\ \/ args.from \notin DOMAIN POSITION_TRANSFORM
                 \/ args.to \notin DOMAIN POSITION_TRANSFORM[args.from])
                => (ret.raised = "ValueError" /\ ret.value = <<>>)

C3_Witness ==
    /\ op = "get_coordinate_transform_matrix"
    /\ args = [from |-> "XYZ", to |-> "XYZ"]
    /\ ret.raised = "None"
    /\ ret.value = Eye3

\* C4: + and - of two PatientCoordinates raise when the coordinate systems
\* differ and otherwise return an object tagged with the common system that
\* holds the componentwise sum or difference; both operands are as before.
C4_TaggedArithmetic ==
    (op \in {"add", "sub"})
       => LET a == args.before[args.self]
              b == args.before[args.other]
          IN  /\ pc = args.before
              /\ (a.coord_system # b.coord_system) => ret.raised = "ValueError"
              /\ (a.coord_system = b.coord_system)
                    => /\ ret.raised = "None"
                       /\ ret.value.coord_system = a.coord_system
                       /\ \A k \in 1..3 :
                             ret.value.coords[k] =
                               IF op = "add" THEN RAdd(a.coords[k], b.coords[k])
                               ELSE RSub(a.coords[k], b.coords[k])

C4_Witness ==
    /\ op = "add"
    /\ args.self = 1
    /\ args.other = 2
    /\ pc[1].coord_system = "LPS"
    /\ pc[2].coord_system = "RAS"
    /\ ret.raised = "ValueError"

---------------------------------------------------------------------------
(* camera.py: the pinhole camera functions.  A point set is a sequence of  *)
(* rows; a rotation argument is an ndarray or a scipy Rotation object.     *)

create_intrinsic_matrix(focal_length, pixel_spacing, principal_pt) ==
    <<<<RDiv(focal_length, pixel_spacing[1]), Q(0), principal_pt[1]>>,
      <<Q(0), RDiv(focal_length, pixel_spacing[2]), principal_pt[2]>>,
      <<Q(0), Q(0), Q(1)>>>>

\* x - v with the (3,) array v broadcast over the rows of x.
RowsSub(x, v) == Arr([i \in 1..Len(x) |-> VSub(x[i], v)])

RowsAdd(x, v) == Arr([i \in 1..Len(x) |-> VAdd(x[i], v)])

\* Rotation.apply(vectors): the rotation applied to each row.
RotationApply(m, x) == Arr([i \in 1..Len(x) |-> MatVec(m, x[i])])

world_to_camera_Inverting(x_world, camera_origin_world, rotation_camera_to_world) ==
    Transpose(MatMul(Inv3(rotation_camera_to_world.matrix),
                     Transpose(RowsSub(x_world, camera_origin_world))))

world_to_camera(x_world, camera_origin_world, rotation_camera_to_world) ==
    IF rotation_camera_to_world.type = "Rotation"
    THEN RotationApply(rotation_camera_to_world.matrix,
                       RowsSub(x_world, camera_origin_world))
    ELSE Transpose(MatMul(rotation_camera_to_world.matrix,
                          Transpose(RowsSub(x_world, camera_origin_world))))

camera_to_world_NoOrigin(x_camera, camera_origin_world, rotation_world_to_camera) ==
    Transpose(MatMul(rotation_world_to_camera.matrix, Transpose(x_camera)))

camera_to_world(x_camera, camera_origin_world, rotation_world_to_camera) ==
    IF rotation_world_to_camera.type = "Rotation"
    THEN RowsAdd(RotationApply(rotation_world_to_camera.matrix, x_camera),
                 camera_origin_world)
    ELSE RowsAdd(Transpose(MatMul(rotation_world_to_camera.matrix,
                                  Transpose(x_camera))),
                 camera_origin_world)

camera_to_image(x_camera, intrinsic_matrix) ==
    LET z == Arr([i \in 1..Len(x_camera) |-> x_camera[i][3]])
        kx == Transpose(MatMul(intrinsic_matrix, Transpose(x_camera)))
    IN  Arr([i \in 1..Len(x_camera) |->
                <<RDiv(kx[i][1], z[i]), RDiv(kx[i][2], z[i])>>])

to_homogeneous(pts) == Arr([i \in 1..Len(pts) |-> Append(pts[i], Q(1))])

\* z is None or a float.
image_to_camera(x_image, intrinsic_matrix, z) ==
    LET xh == IF Len(x_image[1]) = 2 THEN to_homogeneous(x_image) ELSE x_image
        x == Transpose(MatMul(Inv3(intrinsic_matrix), Transpose(xh)))
    IN  IF z # None
        THEN Arr([i \in 1..Len(x) |-> VScale(x[i], z.value)])
        ELSE x

---------------------------------------------------------------------------
(* scipy's Rotation.from_euler("xyz", angles, degrees=True).as_matrix():   *)
(* extrinsic rotations about the fixed x, then y, then z axis, that is     *)
(* Rz(c) @ Ry(b) @ Rx(a), at multiples of 90 degrees.                      *)

CosDeg(a) ==
    LET r == a % 360
    IN  IF r = 0 THEN Q(1) ELSE IF r = 180 THEN Q(-1) ELSE Q(0)

SinDeg(a) ==
    LET r == a % 360
    IN  IF r = 90 THEN Q(1) ELSE IF r = 270 THEN Q(-1) ELSE Q(0)

RotX(a) == <<<<Q(1), Q(0), Q(0)>>,
             <<Q(0), CosDeg(a), RNeg(SinDeg(a))>>,
             <<Q(0), SinDeg(a), CosDeg(a)>>>>

RotY(a) == <<<<CosDeg(a), Q(0), SinDeg(a)>>,
             <<Q(0), Q(1), Q(0)>>,
             <<RNeg(SinDeg(a)), Q(0), CosDeg(a)>>>>

RotZ(a) == <<<<CosDeg(a), RNeg(SinDeg(a)), Q(0)>>,
             <<SinDeg(a), CosDeg(a), Q(0)>>,
             <<Q(0), Q(0), Q(1)>>>>

from_euler_xyz(angles) ==
    MatMul(RotZ(angles[3]), MatMul(RotY(angles[2]), RotX(angles[1])))

---------------------------------------------------------------------------
(* Inputs of the model.                                                    *)

Angles == {90 * k : k \in 0..MaxQuarterTurns}

\* The k-th row of the point sets: depth k + 1 along the third axis.
PointAt(k) == QV(<<k, 2 - k, k + 1>>)

\* The (n, 3) array of the first n rows.
PointSet(n) == Arr([k \in 1..n |-> PointAt(k)])

PointSets == {PointSet(n) : n \in 1..MaxN}

Origins == {QV(<<0, 0, 0>>), QV(<<1, -2, 3>>)}

\* The rotation by the angle of the 3-4-5 triangle about the third axis.
Rot345 == <<<<Frac(3, 5), Frac(-4, 5), Q(0)>>,
            <<Frac(4, 5), Frac(3, 5), Q(0)>>,
            <<Q(0), Q(0), Q(1)>>>>

RotationMatrices ==
    {from_euler_xyz(<<a, b, 0>>) : a, b \in Angles} \cup {Rot345}

RotationArguments ==
    {NdArray(m) : m \in RotationMatrices}
        \cup {RotationObject(m) : m \in RotationMatrices}

\* The contents of the lists passed as imager_pixel_spacing.
PixelSpacings == <<<<Frac(1, 2), Frac(1, 2)>>, <<Frac(1, 4), Frac(1, 2)>>>>

IntrinsicMatrices ==
    {create_intrinsic_matrix(Q(4), PixelSpacings[l], <<Frac(3, 2), Frac(5, 2)>>) :
        l \in 1..Len(PixelSpacings)}

\* R.inv() of a Rotation object, np.linalg.inv(R) of an array.
InverseRotation(r) == [r EXCEPT !.matrix = Inv3(r.matrix)]

---------------------------------------------------------------------------
(* The camera functions as a state machine: the inputs are drawn at the    *)
(* start; each step applies one function to the inputs or to the result of *)
(* the step before, as in                                                  *)
(*   camera_to_image(world_to_camera(camera_to_world(x, o, R), o, R^-1), K)*)

CameraIdle ==
    /\ pc = <<>>
    /\ carms = <<>>
    /\ lists = <<>>
    /\ adapter = NoObject
    /\ lastSet = <<>>
    /\ volume = NoObject
    /\ pixelLog = NoPixelRead

InitCamera ==
    /\ op = "init"
    /\ args \in [x : PointSets, o : Origins, R : RotationArguments,
                  K : IntrinsicMatrices]
    /\ ret = Returned(<<>>)
    /\ CameraIdle

\* world_to_camera(x, o, R)
CallWorldToCamera ==
    /\ op = "init"
    /\ op' = "world_to_camera"
    /\ ret' = Returned(world_to_camera(args.x, args.o, args.R))
    /\ UNCHANGED <<args, pc, carms, lists, adapter, lastSet, volume, pixelLog>>

\* camera_to_world(x, o, R)
CallCameraToWorld ==
    /\ op = "init"
    /\ op' = "camera_to_world"
    /\ ret' = Returned(camera_to_world(args.x, args.o, args.R))
    /\ UNCHANGED <<args, pc, carms, lists, adapter, lastSet, volume, pixelLog>>

\* camera_to_image(x, K)
CallCameraToImage ==
    /\ op = "init"
    /\ op' = "camera_to_image"
    /\ ret' = Returned(camera_to_image(args.x, args.K))
    /\ UNCHANGED <<args, pc, carms, lists, adapter, lastSet, volume, pixelLog>>

\* world_to_camera(w, o, R^-1) on the result w of camera_to_world(x, o, R)
CallWorldToCameraBack ==
    /\ op = "camera_to_world"
    /\ op' = "world_to_camera_back"
    /\ ret' = Returned(world_to_camera(ret.value, args.o, InverseRotation(args.R)))
    /\ UNCHANGED <<args, pc, carms, lists, adapter, lastSet, volume, pixelLog>>

\* camera_to_image(c, K) on the result c of the step before
CallCameraToImageBack ==
    /\ op = "world_to_camera_back"
    /\ op' = "camera_to_image_back"
    /\ ret' = Returned(camera_to_image(ret.value, args.K))
    /\ UNCHANGED <<args, pc, carms, lists, adapter, lastSet, volume, pixelLog>>

NextCamera ==
    \/ CallWorldToCamera
    \/ CallCameraToWorld
    \/ CallCameraToImage
    \/ CallWorldToCameraBack
    \/ CallCameraToImageBack

SpecCamera == InitCamera /\ [][NextCamera]_vars

---------------------------------------------------------------------------
(* Properties of the camera functions.                                     *)

\* C9 as claimed: world_to_camera returns, for each point p, the inverse of
\* its third argument applied to p - camera_origin.
C9_AppliesInverseOfArgument ==
    (op = "world_to_camera")
       => \A i \in 1..Len(args.x) :
             ret.value[i] = MatVec(Inv3(args.R.matrix), VSub(args.x[i], args.o))

\* C9 as amended: world_to_camera returns, for each point p, its third
\* argument itself applied to p - camera_origin (the caller passes the
\* world-to-camera rotation, the inverse of the camera-to-world one).
C9_AppliesArgumentAsGiven ==
    (op = "world_to_camera")
       => /\ Len(ret.value) = Len(args.x)
          /\ \A i \in 1..Len(args.x) :
                ret.value[i] = MatVec(args.R.matrix, VSub(args.x[i], args.o))

C9_Witness ==
    /\ op = "world_to_camera"
    /\ args.R = NdArray(from_euler_xyz(<<90, 0, 0>>))
    /\ args.o = QV(<<1, -2, 3>>)
    /\ Len(args.x) = 2
    /\ ret.value[1] # MatVec(Inv3(args.R.matrix), VSub(args.x[1], args.o))

\* C10: for points of positive depth, mapping camera -> world with (o, R)
\* and back with (o, R^-1) and projecting with K gives the same image points
\* as projecting the original points.
C10_RoundTrip ==
    (/\ op = "camera_to_image_back"
     /\ \A i \in 1..Len(args.x) : args.x[i][3][1] > 0)
       => ret.value = camera_to_image(args.x, args.K)

C10_Witness ==
    /\ op = "camera_to_image_back"
    /\ args.R.matrix = Rot345
    /\ args.o = QV(<<1, -2, 3>>)
    /\ Len(args.x) = 2
    /\ args.K = create_intrinsic_matrix(Q(4), PixelSpacings[1],
                                        <<Frac(3, 2), Frac(5, 2)>>)
    /\ ret.value[2] = <<Frac(41, 6), Frac(5, 2)>>

---------------------------------------------------------------------------
(* carm.py: CArm.  An object is the record of its attributes;              *)
(* imager_pixel_spacing holds the id of a list object in `lists`, as the   *)
(* code stores the caller's list itself and never a copy.  A method is an  *)
(* operator from the object (and its arguments) to the object as the call  *)
(* leaves it, with the returned value where there is one.                  *)

CArm_rotation_ZThenY(self) ==
    MatMul(RotZ(0 - self.alpha), RotY(0 - self.beta))

CArm_rotation(self) == from_euler_xyz(<<0 - self.alpha, 0 - self.beta, 0>>)

CArm_initialize_SourceAbove(self) ==
    [self EXCEPT
        !.target_object = None,
        !.isocenter_pt = QV(<<0, 0, 0>>),
        !.init_source_basis_vector_x = QV(<<1, 0, 0>>),
        !.init_source_basis_vector_y = QV(<<0, 1, 0>>),
        !.init_source_basis_vector_z = QV(<<0, 0, 1>>),
        !.init_source_pt = VScale(QV(<<0, 0, 1>>), self.sisod),
        !.detector_center_pt_2d =
            <<Frac(self.columns - 1, 2), Frac(self.rows - 1, 2)>>]

CArm_initialize(self) ==
    [self EXCEPT
        !.target_object = None,
        !.isocenter_pt = QV(<<0, 0, 0>>),
        !.init_source_basis_vector_x = QV(<<1, 0, 0>>),
        !.init_source_basis_vector_y = QV(<<0, 1, 0>>),
        !.init_source_basis_vector_z = QV(<<0, 0, 1>>),
        !.init_source_pt = VScale(VNeg(QV(<<0, 0, 1>>)), self.sisod),
        !.detector_center_pt_2d =
            <<Frac(self.columns - 1, 2), Frac(self.rows - 1, 2)>>]

CArm_rotate_StaleSource(self, alpha, beta) ==
    [self EXCEPT !.alpha = alpha, !.beta = beta,
                 !.source_pt = MatVec(CArm_rotation(self), self.init_source_pt)]

CArm_rotate(self, alpha, beta) ==
    LET s == [self EXCEPT !.alpha = alpha, !.beta = beta]
    IN  [s EXCEPT !.source_pt = MatVec(CArm_rotation(s), s.init_source_pt)]

\* CArm(alpha, beta, sid, sod, imager_pixel_spacing, rows, columns,
\*      table_top_position, sisod); sisod is None or a float.
CArm_init(alpha, beta, sid, sod, imager_pixel_spacing, rows, columns, table_top_position, sisod) ==
    LET s == [alpha |-> alpha,
              beta |-> beta,
              sid |-> sid,
              imager_pixel_spacing |-> imager_pixel_spacing,
              rows |-> rows,
              columns |-> columns,
              sod |-> sod,
              table_top_position |-> table_top_position,
              sisod |-> IF sisod = None THEN sod ELSE sisod.value,
              target_object |-> Unset,
              isocenter_pt |-> Unset,
              init_source_basis_vector_x |-> Unset,
              init_source_basis_vector_y |-> Unset,
              init_source_basis_vector_z |-> Unset,
              init_source_pt |-> Unset,
              detector_center_pt_2d |-> Unset,
              source_pt |-> Unset]
    IN  CArm_rotate(CArm_initialize(s), alpha, beta)

CArm_with_updates_InPlace(self, alpha, beta, table_top_position) ==
    LET s == [CArm_rotate(self, alpha, beta)
                 EXCEPT !.table_top_position = table_top_position]
    IN  [ret |-> s, self |-> s]

CArm_with_updates(self, alpha, beta, table_top_position) ==
    [ret |-> CArm_init(alpha, beta, self.sid, self.sod,
                       self.imager_pixel_spacing, self.rows, self.columns,
                       table_top_position, Float(self.sisod)),
     self |-> self]

CArm_source_basis_vector_x(self) ==
    MatVec(CArm_rotation(self), self.init_source_basis_vector_x)

CArm_source_basis_vector_y(self) ==
    MatVec(CArm_rotation(self), self.init_source_basis_vector_y)

CArm_source_basis_vector_z(self) ==
    MatVec(CArm_rotation(self), self.init_source_basis_vector_z)

\* shape (h, w) of detector
CArm_detector_size(self) ==
    <<RMul(Q(self.rows), lists[self.imager_pixel_spacing][1]),
      RMul(Q(self.columns), lists[self.imager_pixel_spacing][2])>>

CArm_intrinsic_matrix(self) ==
    create_intrinsic_matrix(self.sid, lists[self.imager_pixel_spacing],
                            self.detector_center_pt_2d)

CArm_table_top_position_adjusted_source_pt(self) ==
    VSub(self.source_pt, self.table_top_position)

CArm_detector_center_pt_3d(self) ==
    VAdd(CArm_table_top_position_adjusted_source_pt(self),
         VScale(CArm_source_basis_vector_z(self), self.sid))

\* obj.inv(): a method of scipy's Rotation; an ndarray has no attribute inv.
Rotation_inv(obj) ==
    IF obj.type = "Rotation"
    THEN Returned(RotationObject(Inv3(obj.matrix)))
    ELSE Raised("AttributeError")

\* world to camera; self.rotation is the ndarray that as_matrix() returned.
CArm_extrinsic_matrix(self) ==
    LET inv == Rotation_inv(NdArray(CArm_rotation(self)))
    IN  IF inv.raised # "None" THEN inv
        ELSE LET R == inv.value.matrix
                 T == MatVec(R, VNeg(CArm_table_top_position_adjusted_source_pt(self)))
             IN  Returned(Arr([i \in 1..3 |-> Append(R[i], T[i])]))

CArm_projection_matrix(self) ==
    LET extrinsic_matrix == CArm_extrinsic_matrix(self)
    IN  IF extrinsic_matrix.raised # "None" THEN extrinsic_matrix
        ELSE Returned(MatMul(CArm_intrinsic_matrix(self), extrinsic_matrix.value))

\* The list the caller passes replaces the reference; no list is written.
CArm_move_detector(self, heap, sid, imager_pixel_spacing) ==
    [self |-> [self EXCEPT !.sid = sid,
                           !.imager_pixel_spacing = imager_pixel_spacing],
     lists |-> heap]

CArm_set_target_object(self, target_object) ==
    [self EXCEPT !.target_object = target_object]

CArm_table_move_ShiftingSource(self, table_top_position) ==
    [self EXCEPT !.table_top_position = table_top_position,
                 !.source_pt = VSub(@, table_top_position)]

CArm_table_move(self, table_top_position) ==
    [self EXCEPT !.table_top_position = table_top_position]

\* The projection at the end of capture, of the (n, 3) array obj.
CArm_project(self, obj) ==
    camera_to_image(
        world_to_camera(obj.matrix,
                        CArm_table_top_position_adjusted_source_pt(self),
                        NdArray(Inv3(CArm_rotation(self)))),
        CArm_intrinsic_matrix(self))

CArm_capture_Binding(self, obj) ==
    IF obj = None
    THEN IF self.target_object = None
         THEN [ret |-> Raised("ValueError"), self |-> self]
         ELSE [ret |-> Returned(CArm_project(self, self.target_object)),
               self |-> self]
    ELSE [ret |-> Returned(CArm_project(self, obj)),
          self |-> [self EXCEPT !.target_object = obj]]

\* obj is None or an (n, 3) array.
CArm_capture(self, obj) ==
    IF obj = None
    THEN IF self.target_object = None
         THEN [ret |-> Raised("ValueError"), self |-> self]
         ELSE [ret |-> Returned(CArm_project(self, self.target_object)),
               self |-> self]
    ELSE [ret |-> Returned(CArm_project(self, obj)), self |-> self]

CArm_image_to_world_UnitDepth(self, pts_2d) ==
    camera_to_world(
        image_to_camera(pts_2d, CArm_intrinsic_matrix(self), None),
        CArm_table_top_position_adjusted_source_pt(self),
        NdArray(CArm_rotation(self)))

\* pts_2d is an (n, 2) array, n >= 1.
CArm_image_to_world(self, pts_2d) ==
    camera_to_world(
        image_to_camera(pts_2d, CArm_intrinsic_matrix(self), Float(self.sid)),
        CArm_table_top_position_adjusted_source_pt(self),
        NdArray(CArm_rotation(self)))

CArm_image_origin(self) ==
    VSub(VSub(CArm_detector_center_pt_3d(self),
              VDivScalar(VScale(CArm_source_basis_vector_x(self),
                                CArm_detector_size(self)[1]), Q(2))),
         VDivScalar(VScale(CArm_source_basis_vector_y(self),
                           CArm_detector_size(self)[2]), Q(2)))

---------------------------------------------------------------------------
(* carm.py: CArmLPSAdapter.  The object holds the id of the wrapped CArm.  *)

ILA_TO_LPS == get_coordinate_transform_matrix("ILA", "LPS").value

CArmLPSAdapter_init(carm) == [carm |-> carm]

\* self.carm
CArmLPSAdapter_carm(self) == carms[self.carm]

\* a @ b of two 2-D arrays: numpy raises ValueError unless the number of
\* columns of a is the number of rows of b.
MatMulChecked(a, b) ==
    IF Len(a[1]) # Len(b) THEN Raised("ValueError") ELSE Returned(MatMul(a, b))

CArmLPSAdapter_LPS_to_ILA(points) == MatMulChecked(Inv3(ILA_TO_LPS), points)

\* obj is None or an (n, 3) array.
CArmLPSAdapter_capture(self, obj) ==
    IF obj # None
    THEN LET obj_ila == CArmLPSAdapter_LPS_to_ILA(obj.matrix)
         IN  IF obj_ila.raised # "None"
             THEN [ret |-> obj_ila, carm |-> CArmLPSAdapter_carm(self)]
             ELSE LET r == CArm_capture(CArmLPSAdapter_carm(self),
                                        NdArray(obj_ila.value))
                  IN  [ret |-> r.ret, carm |-> r.self]
    ELSE LET r == CArm_capture(CArmLPSAdapter_carm(self), None)
         IN  [ret |-> r.ret, carm |-> r.self]

CArmLPSAdapter_source_basis_vector_x(self) ==
    MatVec(ILA_TO_LPS, CArm_source_basis_vector_x(CArmLPSAdapter_carm(self)))

CArmLPSAdapter_source_basis_vector_y(self) ==
    MatVec(ILA_TO_LPS, CArm_source_basis_vector_y(CArmLPSAdapter_carm(self)))

CArmLPSAdapter_source_basis_vector_z(self) ==
    MatVec(ILA_TO_LPS, CArm_source_basis_vector_z(CArmLPSAdapter_carm(self)))

CArmLPSAdapter_detector_size(self) ==
    CArm_detector_size(CArmLPSAdapter_carm(self))

CArmLPSAdapter_source_pt_Unadjusted(self) ==
    MatVec(ILA_TO_LPS, CArmLPSAdapter_carm(self).source_pt)

CArmLPSAdapter_source_pt(self) ==
    MatVec(ILA_TO_LPS,
           CArm_table_top_position_adjusted_source_pt(CArmLPSAdapter_carm(self)))

CArmLPSAdapter_detector_center_pt_3d(self) ==
    MatVec(ILA_TO_LPS, CArm_detector_center_pt_3d(CArmLPSAdapter_carm(self)))

CArmLPSAdapter_rotation_Reversed(self) ==
    MatMul(CArm_rotation(CArmLPSAdapter_carm(self)), ILA_TO_LPS)

CArmLPSAdapter_rotation(self) ==
    MatMul(ILA_TO_LPS, CArm_rotation(CArmLPSAdapter_carm(self)))

CArmLPSAdapter_intrinsic_matrix(self) ==
    CArm_intrinsic_matrix(CArmLPSAdapter_carm(self))

\* The names an instance answers to: its one instance attribute and the
\* names defined in the class body.
CArmLPSAdapter_names ==
    {"carm", "ILA_TO_LPS", "capture", "LPS_to_ILA", "source_basis_vector_x",
     "source_basis_vector_y", "source_basis_vector_z", "detector_size",
     "source_pt", "detector_center_pt_3d", "rotation", "intrinsic_matrix",
     "extrinsic_matrix", "projection_matrix", "image_to_world", "image_origin"}

\* self.<name> for the vector-valued names the matrices read; the class has
\* no __getattr__, so any other name raises.
CArmLPSAdapter_getattr(self, name) ==
    IF name \notin CArmLPSAdapter_names THEN Raised("AttributeError")
    ELSE IF name = "source_pt" THEN Returned(CArmLPSAdapter_source_pt(self))
    ELSE IF name = "detector_center_pt_3d"
         THEN Returned(CArmLPSAdapter_detector_center_pt_3d(self))
    ELSE Raised("NotModelled")

\* self.rotation is an ndarray, so R is np.linalg.inv of it; T reads
\* self.source_pt_lps.
CArmLPSAdapter_extrinsic_matrix(self) ==
    LET rotation_matrix == NdArray(CArmLPSAdapter_rotation(self))
        R == IF rotation_matrix.type = "Rotation"
             THEN Rotation_inv(rotation_matrix).value.matrix
             ELSE Inv3(rotation_matrix.matrix)
        source_pt_lps == CArmLPSAdapter_getattr(self, "source_pt_lps")
    IN  IF source_pt_lps.raised # "None" THEN source_pt_lps
        ELSE LET T == MatVec(R, VNeg(source_pt_lps.value))
             IN  Returned(Arr([i \in 1..3 |-> Append(R[i], T[i])]))

CArmLPSAdapter_projection_matrix(self) ==
    LET extrinsic_matrix == CArmLPSAdapter_extrinsic_matrix(self)
    IN  IF extrinsic_matrix.raised # "None" THEN extrinsic_matrix
        ELSE Returned(MatMul(CArmLPSAdapter_intrinsic_matrix(self),
                             extrinsic_matrix.value))

CArmLPSAdapter_image_origin(self) ==
    MatVec(ILA_TO_LPS, CArm_image_origin(CArmLPSAdapter_carm(self)))

---------------------------------------------------------------------------
(* The gantry as a state machine: CArm objects 1 and 2 (2 exists once      *)
(* with_updates has returned it), the list objects, and an adapter.        *)

\* The quantities a CArm derives from its fields (extrinsic_matrix and
\* projection_matrix apart).
CArmDerived(self) ==
    <<CArm_rotation(self),
      CArm_source_basis_vector_x(self),
      CArm_source_basis_vector_y(self),
      CArm_source_basis_vector_z(self),
      CArm_detector_size(self),
      CArm_intrinsic_matrix(self),
      CArm_table_top_position_adjusted_source_pt(self),
      CArm_detector_center_pt_3d(self),
      CArm_image_origin(self)>>

\* What a call on CArm i leaves alone: the other CArm's fields and derived
\* quantities as they are before the call (recorded with the arguments).
Rest(i) ==
    IF carms[3 - i] = NoObject THEN <<NoObject, <<>>>>
    ELSE <<carms[3 - i], CArmDerived(carms[3 - i])>>

Sids == {Q(4), Q(8)}

Sods == {Q(3)}

\* The optional argument sisod: left out, or a float.
Sisods == {None, Float(Q(2))}

\* (rows, columns)
Shapes == {<<4, 4>>, <<2, 6>>}

Tables == {QV(<<0, 0, 0>>), QV(<<1, -2, 3>>)}

ListIds == 1..Len(PixelSpacings)

TargetObjects == {NdArray(x) : x \in PointSets}

Rotate(i, alpha, beta) ==
    /\ carms[i] # NoObject
    /\ op' = "rotate"
    /\ args' = [self |-> i, alpha |-> alpha, beta |-> beta, rest |-> Rest(i)]
    /\ ret' = Returned(None)
    /\ carms' = [carms EXCEPT ![i] = CArm_rotate(carms[i], alpha, beta)]
    /\ UNCHANGED <<pc, lists, adapter, lastSet, volume, pixelLog>>

TableMove(i, table_top_position) ==
    /\ carms[i] # NoObject
    /\ op' = "table_move"
    /\ args' = [self |-> i, table_top_position |-> table_top_position,
                rest |-> Rest(i)]
    /\ ret' = Returned(None)
    /\ carms' = [carms EXCEPT ![i] = CArm_table_move(carms[i], table_top_position)]
    /\ UNCHANGED <<pc, lists, adapter, lastSet, volume, pixelLog>>

MoveDetector(i, sid, imager_pixel_spacing) ==
    LET r == CArm_move_detector(carms[i], lists, sid, imager_pixel_spacing)
    IN  /\ carms[i] # NoObject
        /\ op' = "move_detector"
        /\ args' = [self |-> i, sid |-> sid,
                    imager_pixel_spacing |-> imager_pixel_spacing,
                    rest |-> Rest(i)]
        /\ ret' = Returned(None)
        /\ carms' = [carms EXCEPT ![i] = r.self]
        /\ lists' = r.lists
        /\ UNCHANGED <<pc, adapter, lastSet, volume, pixelLog>>

SetTargetObject(i, target_object) ==
    /\ carms[i] # NoObject
    /\ op' = "set_target_object"
    /\ args' = [self |-> i, target_object |-> target_object]
    /\ ret' = Returned(None)
    /\ carms' = [carms EXCEPT ![i] = CArm_set_target_object(carms[i], target_object)]
    /\ lastSet' = [lastSet EXCEPT ![i] = target_object]
    /\ UNCHANGED <<pc, lists, adapter, volume, pixelLog>>

\* carms[i].capture(obj), obj None for a call with no argument
Capture(i, obj) ==
    LET r == CArm_capture(carms[i], obj)
    IN  /\ carms[i] # NoObject
        /\ op' = "capture"
        /\ args' = [self |-> i, obj |-> obj, before |-> carms]
        /\ ret' = r.ret
        /\ carms' = [carms EXCEPT ![i] = r.self]
        /\ UNCHANGED <<pc, lists, adapter, lastSet, volume, pixelLog>>

\* adapter.capture(obj)
AdapterCapture(obj) ==
    LET r == CArmLPSAdapter_capture(adapter, obj)
    IN  /\ op' = "adapter_capture"
        /\ args' = [obj |-> obj, before |-> carms]
        /\ ret' = r.ret
        /\ carms' = [carms EXCEPT ![adapter.carm] = r.carm]
        /\ UNCHANGED <<pc, lists, adapter, lastSet, volume, pixelLog>>

\* carms[i].with_updates(...); the new object becomes the other CArm.
WithUpdates(i, alpha, beta, table_top_position) ==
    LET r == CArm_with_updates(carms[i], alpha, beta, table_top_position)
    IN  /\ carms[i] # NoObject
        /\ op' = "with_updates"
        /\ args' = [self |-> i, alpha |-> alpha, beta |-> beta,
                    table_top_position |-> table_top_position,
                    before |-> carms[i], lists_before |-> lists]
        /\ ret' = Returned(3 - i)
        /\ carms' = [[carms EXCEPT ![i] = r.self] EXCEPT ![3 - i] = r.ret]
        /\ lastSet' = [lastSet EXCEPT ![3 - i] = None]
        /\ UNCHANGED <<pc, lists, adapter, volume, pixelLog>>

InitCArm ==
    /\ op = "init"
    /\ args = <<>>
    /\ ret = Returned(<<>>)
    /\ pc = <<>>
    /\ lists = PixelSpacings
    /\ carms \in {<<CArm_init(a, b, sid, sod, l, shape[1], shape[2], t, None),
                    NoObject>> :
                    <<a, b, sid, sod, l, shape, t>> \in
                        Angles \X Angles \X Sids \X Sods \X ListIds
                               \X Shapes \X Tables}
    /\ adapter = CArmLPSAdapter_init(1)
    /\ lastSet = <<None, None>>
    /\ volume = NoObject
    /\ pixelLog = NoPixelRead

NextCArm ==
    \/ \E a, b \in Angles : Rotate(1, a, b)
    \/ \E t \in Tables : TableMove(1, t)
    \/ \E sid \in Sids, l \in ListIds : MoveDetector(1, sid, l)
    \/ \E o \in TargetObjects \cup {None} : SetTargetObject(1, o)
    \/ \E o \in TargetObjects \cup {None} : Capture(1, o)
    \/ \E o \in TargetObjects \cup {None} : AdapterCapture(o)

SpecCArm == InitCArm /\ [][NextCArm]_vars

\* The angles and the detector settings (sid, list) of the two-instance
\* machine.
SnapshotAngles == {0, 90}

SnapshotDetectors == {<<Q(4), 1>>, <<Q(8), 2>>}

InitSnapshot ==
    /\ op = "init"
    /\ args = <<>>
    /\ ret = Returned(<<>>)
    /\ pc = <<>>
    /\ lists = PixelSpacings
    /\ carms \in {<<CArm_init(a, b, Q(4), Q(3), 1, 2, 6, QV(<<0, 0, 0>>), sisod),
                    NoObject>> :
                    <<a, b, sisod>> \in SnapshotAngles \X SnapshotAngles \X Sisods}
    /\ adapter = CArmLPSAdapter_init(1)
    /\ lastSet = <<None, None>>
    /\ volume = NoObject
    /\ pixelLog = NoPixelRead

NextSnapshot ==
    \/ \E i \in 1..2, a, b \in SnapshotAngles, t \in Tables :
           WithUpdates(i, a, b, t)
    \/ \E i \in 1..2, a, b \in SnapshotAngles : Rotate(i, a, b)
    \/ \E i \in 1..2, t \in Tables : TableMove(i, t)
    \/ \E i \in 1..2, d \in SnapshotDetectors : MoveDetector(i, d[1], d[2])

SpecSnapshot == InitSnapshot /\ [][NextSnapshot]_vars

---------------------------------------------------------------------------
(* Properties of the gantry and its adapter.                               *)

\* C5: capture() with no argument raises exactly when no target object has
\* been set since construction, and otherwise projects the object set last;
\* capture(obj) with an argument never raises for lack of a target; no
\* capture, failed or not, changes a field (the bound target included).
C5_CaptureTarget ==
    (op = "capture")
       => LET self == carms[args.self]
          IN  /\ carms = args.before
              /\ self.target_object = lastSet[args.self]
              /\ (ret.raised = "ValueError")
                    <=> (args.obj = None /\ lastSet[args.self] = None)
              /\ (args.obj = None /\ lastSet[args.self] # None)
                    => ret = Returned(CArm_project(self, lastSet[args.self]))
              /\ (args.obj # None)
                    => ret = Returned(CArm_project(self, args.obj))

C5_Witness ==
    /\ op = "capture"
    /\ args.obj = None
    /\ lastSet[1] = NdArray(PointSet(2))
    /\ carms[1].alpha = 90
    /\ ret.raised = "None"
    /\ Len(ret.value) = 2

\* C6: with_updates(alpha, beta, table_top_position) leaves the receiver and
\* the lists as they were and returns a CArm with the given alpha, beta and
\* table offset and the receiver's sid, sod, sisod, pixel spacing, rows and
\* columns; rotate, table_move and move_detector on one of the two objects
\* leave the other's fields and derived quantities unchanged.
C6_WithUpdatesIndependent ==
    /\ (op = "with_updates")
       => LET self == carms[args.self]
              new == carms[ret.value]
          IN  /\ ret.value # args.self
              /\ self = args.before
              /\ lists = args.lists_before
              /\ new.alpha = args.alpha
              /\ new.beta = args.beta
              /\ new.table_top_position = args.table_top_position
              /\ new.sid = self.sid
              /\ new.sod = self.sod
              /\ new.sisod = self.sisod
              /\ lists[new.imager_pixel_spacing] = lists[self.imager_pixel_spacing]
              /\ new.rows = self.rows
              /\ new.columns = self.columns
    /\ (op \in {"rotate", "table_move", "move_detector"}
          /\ args.rest[1] # NoObject)
       => /\ carms[3 - args.self] = args.rest[1]
          /\ CArmDerived(carms[3 - args.self]) = args.rest[2]

C6_Witness ==
    /\ op = "move_detector"
    /\ args.self = 2
    /\ carms[2] # NoObject
    /\ carms[2].alpha = 90
    /\ carms[1].alpha = 0
    /\ carms[2].sid # carms[1].sid
    /\ carms[2].imager_pixel_spacing # carms[1].imager_pixel_spacing
    /\ carms[2].sisod = Q(2)

\* C7: whatever has been done to the wrapped CArm, the adapter's rotation,
\* source basis vectors, detector centre and image origin are ILA_TO_LPS
\* times the wrapped CArm's current ones, and its detector size and
\* intrinsic matrix are the wrapped CArm's current ones.
C7_AdapterFollowsGantry ==
    (carms # <<>>)
       => LET gantry == carms[adapter.carm]
          IN  /\ CArmLPSAdapter_rotation(adapter)
                    = MatMul(ILA_TO_LPS, CArm_rotation(gantry))
              /\ CArmLPSAdapter_source_basis_vector_x(adapter)
                    = MatVec(ILA_TO_LPS, CArm_source_basis_vector_x(gantry))
              /\ CArmLPSAdapter_source_basis_vector_y(adapter)
                    = MatVec(ILA_TO_LPS, CArm_source_basis_vector_y(gantry))
              /\ CArmLPSAdapter_source_basis_vector_z(adapter)
                    = MatVec(ILA_TO_LPS, CArm_source_basis_vector_z(gantry))
              /\ CArmLPSAdapter_detector_center_pt_3d(adapter)
                    = MatVec(ILA_TO_LPS, CArm_detector_center_pt_3d(gantry))
              /\ CArmLPSAdapter_image_origin(adapter)
                    = MatVec(ILA_TO_LPS, CArm_image_origin(gantry))
              /\ CArmLPSAdapter_detector_size(adapter) = CArm_detector_size(gantry)
              /\ CArmLPSAdapter_intrinsic_matrix(adapter)
                    = CArm_intrinsic_matrix(gantry)

C7_Witness ==
    /\ op = "move_detector"
    /\ carms[1].alpha = 90
    /\ carms[1].beta = 180
    /\ carms[1].table_top_position = QV(<<1, -2, 3>>)
    /\ carms[1].sid = Q(8)
    /\ CArmLPSAdapter_rotation(adapter) # ILA_TO_LPS
    /\ CArmLPSAdapter_image_origin(adapter) # CArm_image_origin(carms[1])

\* C8 as claimed: adapter.capture(P) of an (N, 3) array P, N >= 1, is the
\* wrapped CArm's capture of the array whose rows are the rows of P mapped
\* by the inverse of ILA_TO_LPS.
C8_AdapterCaptureRowwise ==
    (op = "adapter_capture" /\ args.obj # None)
       => ret = CArm_capture(
                    carms[adapter.carm],
                    NdArray(Arr([k \in 1..Len(args.obj.matrix) |->
                                MatVec(Inv3(ILA_TO_LPS), args.obj.matrix[k])]))).ret


---------------------------------------------------------------------------
(* camera.py: triangulate_multi_views.                                     *)

\* triangulate_multi_views is called with 0..MaxViews views.
MaxViews == 2

\* M of lines 159-162: rows 3i..3i+2 hold proj_mat in columns 0..3 and
\* -to_homogeneous(pt) in column 4 + i, zeros elsewhere (here from 1).
TriangulationSystem(projection_matrices, pts) ==
    LET n == Len(projection_matrices)
    IN  Arr([r \in 1..(3 * n) |->
            LET i == ((r - 1) \div 3) + 1
                k == ((r - 1) % 3) + 1
            IN  Arr([c \in 1..(4 + n) |->
                    IF c <= 4 THEN projection_matrices[i][k][c]
                    ELSE IF c = 4 + i THEN RNeg(Append(pts[i], Q(1))[k])
                    ELSE Q(0)])])

\* Integer vectors of the given length with components in -1..1.
RECURSIVE Box(_)
Box(len) ==
    IF len = 0 THEN {<<>>}
    ELSE {Append(v, Q(c)) : v \in Box(len - 1), c \in -1..1}

\* np.linalg.svd(M)[-1][-1] for a matrix M with `cols` columns that has a
\* null vector: the last right-singular vector belongs to singular value 0,
\* so it is a null vector of M, and which one (when there are several
\* directions) is the LAPACK build's choice.  Its scale cancels in X / X[3];
\* the directions are those with integer components in -1..1.
LastRightSingularVectors(M, cols) ==
    {v \in Box(cols) :
        /\ \E c \in 1..cols : v[c] # Q(0)
        /\ \A r \in 1..Len(M) : Dot(M[r], v) = Q(0)}

\* The outcomes of triangulate_multi_views(projection_matrices, pts).
triangulate_multi_views(projection_matrices, pts) ==
    IF Len(projection_matrices) # Len(pts)
    THEN {Raised("AssertionError")}
    ELSE LET n == Len(projection_matrices)
             M == TriangulationSystem(projection_matrices, pts)
         IN  {Returned(SubSeq(VDivScalar(SubSeq(V, 1, 4), V[4]), 1, 3)) :
                 V \in LastRightSingularVectors(M, 4 + n)}

\* Views of a world point: cameras [I | -c] at centre c, looking along z.
CameraCentres == {<<0, 0, 0>>, <<1, 0, 0>>, <<0, 1, 0>>}

WorldPoints == {<<x, y, 1>> : x, y \in 0..1}

ProjectionMatrix(c) ==
    QM(<<<<1, 0, 0, 0 - c[1]>>, <<0, 1, 0, 0 - c[2]>>, <<0, 0, 1, 0 - c[3]>>>>)

\* The image of the world point X in the camera at c.
ImagePoint(c, X) ==
    camera_to_image(<<VSub(QV(X), QV(c))>>, Eye3)[1]

RECURSIVE CameraLists(_)
CameraLists(len) ==
    IF len = 0 THEN {<<>>}
    ELSE {Append(cs, c) : cs \in CameraLists(len - 1), c \in CameraCentres}

\* (projection_matrices, pts) of 0..MaxViews views of one world point, and
\* the same with the last image point left out.
ViewLists ==
    LET full == {<<Arr([i \in 1..Len(cs) |-> ProjectionMatrix(cs[i])]),
                   Arr([i \in 1..Len(cs) |-> ImagePoint(cs[i], X)])>> :
                    cs \in UNION {CameraLists(n) : n \in 0..MaxViews},
                    X \in WorldPoints}
    IN  full \cup {<<v[1], SubSeq(v[2], 1, Len(v[2]) - 1)>> :
                      v \in {w \in full : Len(w[2]) = 1}}

InitTriangulate ==
    /\ op = "init"
    /\ args = <<>>
    /\ ret = Returned(<<>>)
    /\ CameraIdle

CallTriangulate ==
    \E v \in ViewLists :
        /\ op = "init"
        /\ op' = "triangulate_multi_views"
        /\ args' = [projection_matrices |-> v[1], pts |-> v[2]]
        /\ ret' \in triangulate_multi_views(v[1], v[2])
        /\ UNCHANGED <<pc, carms, lists, adapter, lastSet, volume, pixelLog>>

NextTriangulate == CallTriangulate

SpecTriangulate == InitTriangulate /\ [][NextTriangulate]_vars

\* C11 as claimed: triangulate_multi_views with fewer than two views raises
\* and returns no point.
C11_FewerThanTwoViewsFail ==
    (op = "triangulate_multi_views"
        /\ Len(args.projection_matrices) = Len(args.pts)
        /\ Len(args.projection_matrices) < 2)
       => ret.raised # "None"

---------------------------------------------------------------------------
(* Further properties of the gantry.                                       *)

\* C12 as claimed: CArm.rotation is the rotation about z by -alpha followed
\* by the rotation about the rotated y axis by -beta, Rz(-alpha) @ Ry(-beta).
C12_RotationIsZThenY ==
    (carms # <<>>)
       => CArm_rotation(carms[1])
             = MatMul(RotZ(0 - carms[1].alpha), RotY(0 - carms[1].beta))

\* C12: CArm.rotation is the rotation about the fixed x axis by -alpha
\* followed by the rotation about the fixed y axis by -beta, that is
\* Ry(-beta) @ Rx(-alpha): it maps v to Ry(-beta) @ (Rx(-alpha) @ v).
C12_RotationIsXThenY ==
    (carms # <<>>)
       => LET a == 0 - carms[1].alpha
              b == 0 - carms[1].beta
          IN  /\ CArm_rotation(carms[1]) = MatMul(RotY(b), RotX(a))
              /\ \A v \in {QV(<<1, 0, 0>>), QV(<<0, 1, 0>>), QV(<<0, 0, 1>>)} :
                    MatVec(CArm_rotation(carms[1]), v)
                       = MatVec(RotY(b), MatVec(RotX(a), v))

C12_Witness ==
    /\ op = "rotate"
    /\ carms[1].alpha = 90
    /\ carms[1].beta = 0
    /\ CArm_rotation(carms[1]) = QM(<<<<1, 0, 0>>, <<0, 0, 1>>, <<0, -1, 0>>>>)
    /\ CArm_rotation(carms[1])
          # MatMul(RotZ(0 - carms[1].alpha), RotY(0 - carms[1].beta))

\* C13 as claimed: image_origin is detector_center_pt_3d minus
\* source_basis_vector_x times width / 2 minus source_basis_vector_y times
\* height / 2, with width = columns * column spacing and height = rows * row
\* spacing.
C13_ImageOriginFromWidthAndHeight ==
    (carms # <<>>)
       => LET self == carms[1]
              spacing == lists[self.imager_pixel_spacing]
              width == RMul(Q(self.columns), spacing[2])
              height == RMul(Q(self.rows), spacing[1])
          IN  CArm_image_origin(self)
                 = VSub(VSub(CArm_detector_center_pt_3d(self),
                             VScale(CArm_source_basis_vector_x(self),
                                    RDiv(width, Q(2)))),
                        VScale(CArm_source_basis_vector_y(self),
                               RDiv(height, Q(2))))

\* C14 as claimed: in every state extrinsic_matrix returns [R | T] with R the
\* transpose of rotation and T = R @ -(source_pt - table_top_position), and
\* projection_matrix returns intrinsic_matrix @ [R | T].
C14_ExtrinsicAndProjectionReturn ==
    (carms # <<>>)
       => LET self == carms[1]
              R == Transpose(CArm_rotation(self))
              T == MatVec(R, VNeg(VSub(self.source_pt, self.table_top_position)))
              RT == Arr([i \in 1..3 |-> Append(R[i], T[i])])
          IN  /\ CArm_extrinsic_matrix(self) = Returned(RT)
              /\ CArm_projection_matrix(self)
                    = Returned(MatMul(CArm_intrinsic_matrix(self), RT))

---------------------------------------------------------------------------
(* The gantry of the fixture: alpha = 0, beta = 0, SID 1000, SOD 750,       *)
(* pixel spacing [0.2, 0.2], 512 x 512, no table offset, no explicit SISOD; *)
(* and a small one of the same kind.                                        *)

FixtureSpacings == <<<<Frac(1, 5), Frac(1, 5)>>, <<Frac(1, 2), Frac(1, 2)>>>>

\* (sid, sod, imager_pixel_spacing, rows, columns)
Fixtures == {<<Q(1000), Q(750), 1, 512, 512>>, <<Q(4), Q(3), 2, 4, 4>>}

InitFixture ==
    /\ op = "init"
    /\ args = <<>>
    /\ ret = Returned(<<>>)
    /\ pc = <<>>
    /\ lists = FixtureSpacings
    /\ carms \in {<<CArm_init(0, 0, f[1], f[2], f[3], f[4], f[5],
                              QV(<<0, 0, 0>>), None),
                    NoObject>> : f \in Fixtures}
    /\ adapter = CArmLPSAdapter_init(1)
    /\ lastSet = <<None, None>>
    /\ volume = NoObject
    /\ pixelLog = NoPixelRead

NextFixture ==
    \/ \E a, b \in Angles : Rotate(1, a, b)
    \/ \E t \in Tables : TableMove(1, t)
    \/ \E f \in Fixtures : MoveDetector(1, f[1], f[3])

SpecFixture == InitFixture /\ [][NextFixture]_vars

\* C15: a CArm with alpha = 0, beta = 0, zero table offset and no explicit
\* SISOD has the identity as rotation and source point (0, 0, -SOD); with
\* rows = columns and isotropic spacing the x and y components of
\* image_origin are both -(rows * spacing) / 2.
C15_FixturePose ==
    (carms # <<>>
        /\ carms[1].alpha = 0 /\ carms[1].beta = 0
        /\ carms[1].table_top_position = QV(<<0, 0, 0>>))
       => LET self == carms[1]
              spacing == lists[self.imager_pixel_spacing]
              half == RDiv(RMul(Q(self.rows), spacing[1]), Q(2))
          IN  /\ CArm_rotation(self) = Eye3
              /\ self.source_pt = <<Q(0), Q(0), RNeg(self.sod)>>
              /\ (self.rows = self.columns /\ spacing[1] = spacing[2])
                    => /\ CArm_image_origin(self)[1] = RNeg(half)
                       /\ CArm_image_origin(self)[2] = RNeg(half)

C15_Witness ==
    /\ op = "init"
    /\ carms[1].sid = Q(1000)
    /\ carms[1].sod = Q(750)
    /\ carms[1].rows = 512
    /\ carms[1].columns = 512
    /\ lists[carms[1].imager_pixel_spacing] = <<Frac(1, 5), Frac(1, 5)>>
    /\ carms[1].source_pt = QV(<<0, 0, -750>>)
    /\ CArm_image_origin(carms[1]) = <<Frac(-256, 5), Frac(-256, 5), Q(250)>>

\* C20: after construction and after any sequence of rotate, table_move and
\* move_detector (and with_updates), each CArm's stored source point is
\* rotation(alpha, beta) @ (0, 0, -SISOD) for its current alpha and beta, and
\* its stored principal point is ((columns - 1) / 2, (rows - 1) / 2).
C20_StoredValuesCurrent ==
    \A i \in DOMAIN carms :
        (carms[i] # NoObject)
           => LET self == carms[i]
              IN  /\ self.source_pt
                        = MatVec(from_euler_xyz(<<0 - self.alpha, 0 - self.beta, 0>>),
                                 <<Q(0), Q(0), RNeg(self.sisod)>>)
                  /\ self.detector_center_pt_2d
                        = <<Frac(self.columns - 1, 2), Frac(self.rows - 1, 2)>>

C20_Witness ==
    /\ op = "rotate"
    /\ args.self = 1
    /\ carms[1].alpha = 90
    /\ carms[1].beta = 0
    /\ carms[1].sisod = Q(2)
    /\ carms[1].sid = Q(8)
    /\ carms[1].table_top_position = QV(<<1, -2, 3>>)
    /\ carms[1].source_pt = QV(<<0, -2, 0>>)
    /\ carms[1].detector_center_pt_2d = <<Frac(5, 2), Frac(1, 2)>>

---------------------------------------------------------------------------
(* dicom.py: BaseDicomHandler and VolumeDicomHandler.  A dataset is the     *)
(* function from the keywords of the elements it holds to their values: a  *)
(* float, an int, a string, or a list of floats.  A handler is the record   *)
(* of its attributes; `id` stands for the identity of the object (the      *)
(* position of its dataset in the constructor's argument).                 *)

\* A volume is built from 0..MaxSlices slices.
MaxSlices == 3

PyList(items) == [type |-> "list", items |-> items]

PyTuple(items) == [type |-> "tuple", items |-> items]

PyInt(n) == [type |-> "int", value |-> Q(n)]

PyStr(str) == [type |-> "str", value |-> str]

\* a < b for two finite numbers
RLess(a, b) == a[1] * b[2] < b[1] * a[2]

\* seq[k] of a Python list: k counts from 0, a negative k from the end.
ListGet(seq, k) ==
    IF 0 <= k /\ k < Len(seq) THEN Returned(seq[k + 1])
    ELSE IF k < 0 /\ 0 - k <= Len(seq) THEN Returned(seq[Len(seq) + k + 1])
    ELSE Raised("IndexError")

\* The value of the element, None if the dataset has no such element.
read_dicom_element_value(dcm, elem_name) ==
    IF elem_name \in DOMAIN dcm THEN dcm[elem_name] ELSE None

BaseDicomHandler_init(dcm_or_path, id) ==
    [dcm_path |-> None, dcm |-> dcm_or_path, id |-> id]

BaseDicomHandler_rows(self) == read_dicom_element_value(self.dcm, "Rows")

BaseDicomHandler_columns(self) == read_dicom_element_value(self.dcm, "Columns")

BaseDicomHandler_pixel_spacing(self) ==
    read_dicom_element_value(self.dcm, "PixelSpacing")

BaseDicomHandler_slice_location(self) ==
    read_dicom_element_value(self.dcm, "SliceLocation")

BaseDicomHandler_image_position_patient(self) ==
    read_dicom_element_value(self.dcm, "ImagePositionPatient")

BaseDicomHandler_anatomical_orientation_type(self) ==
    read_dicom_element_value(self.dcm, "AnatomicalOrientationType")

BaseDicomHandler_spacing_between_slices(self) ==
    read_dicom_element_value(self.dcm, "SpacingBetweenSlices")

BaseDicomHandler_slice_thickness(self) ==
    read_dicom_element_value(self.dcm, "SliceThickness")

BaseDicomHandler_image_orientation_patient(self) ==
    read_dicom_element_value(self.dcm, "ImageOrientationPatient")

\* A scalar as the item of a list.
Item(v) == IF v = None THEN None ELSE v.value

BaseDicomHandler_spacing_ThicknessFirst(self) ==
    LET read == BaseDicomHandler_pixel_spacing(self)
        pixel_spacing == IF read.type # "list"
                         THEN PyList(<<Item(read), Item(read)>>)
                         ELSE read
    IN  IF BaseDicomHandler_slice_thickness(self) # None
        THEN Returned(PyList(Append(pixel_spacing.items,
                                    BaseDicomHandler_slice_thickness(self).value)))
        ELSE IF BaseDicomHandler_spacing_between_slices(self) # None
        THEN Returned(PyList(Append(pixel_spacing.items,
                                    BaseDicomHandler_spacing_between_slices(self).value)))
        ELSE Raised("ValueError")

BaseDicomHandler_spacing(self) ==
    LET read == BaseDicomHandler_pixel_spacing(self)
        pixel_spacing == IF read.type # "list"
                         THEN PyList(<<Item(read), Item(read)>>)
                         ELSE read
    IN  IF BaseDicomHandler_spacing_between_slices(self) # None
        THEN Returned(PyList(Append(pixel_spacing.items,
                                    BaseDicomHandler_spacing_between_slices(self).value)))
        ELSE IF BaseDicomHandler_slice_thickness(self) # None
        THEN Returned(PyList(Append(pixel_spacing.items,
                                    BaseDicomHandler_slice_thickness(self).value)))
        ELSE Raised("ValueError")

\* position_info of _sort_dicom_datasets: (position, i), i counted from 0.
PositionInfo(dicom_datasets) ==
    Arr([k \in 1..Len(dicom_datasets) |->
        LET dataset == dicom_datasets[k]
        IN  IF BaseDicomHandler_slice_location(dataset) # None
            THEN <<BaseDicomHandler_slice_location(dataset).value, k - 1>>
            ELSE IF BaseDicomHandler_image_position_patient(dataset) # None
            THEN <<BaseDicomHandler_image_position_patient(dataset).items[3], k - 1>>
            ELSE <<Q(k - 1), k - 1>>])

RECURSIVE SortByKey_TiesReversed(_)
SortByKey_TiesReversed(info) ==
    IF info = <<>> THEN <<>>
    ELSE LET e == info[Len(info)]
             front == SortByKey_TiesReversed(SubSeq(info, 1, Len(info) - 1))
             k == Cardinality({j \in 1..Len(front) : RLess(front[j][1], e[1])})
         IN  SubSeq(front, 1, k) \o <<e>> \o SubSeq(front, k + 1, Len(front))

\* list.sort(key=lambda x: x[0]): ascending and stable.  Each element in
\* turn goes behind the elements whose key is not greater than its own.
RECURSIVE SortByKey(_)
SortByKey(info) ==
    IF info = <<>> THEN <<>>
    ELSE LET e == info[Len(info)]
             front == SortByKey(SubSeq(info, 1, Len(info) - 1))
             k == Cardinality({j \in 1..Len(front) : ~RLess(e[1], front[j][1])})
         IN  SubSeq(front, 1, k) \o <<e>> \o SubSeq(front, k + 1, Len(front))

VolumeDicomHandler_sort_dicom_datasets(dicom_datasets) ==
    LET position_info == SortByKey(PositionInfo(dicom_datasets))
    IN  Arr([k \in 1..Len(position_info) |->
                dicom_datasets[position_info[k][2] + 1]])

\* VolumeDicomHandler(dcms) for a list of datasets.
VolumeDicomHandler_init(dir_path_or_dcms) ==
    LET dcm_series == VolumeDicomHandler_sort_dicom_datasets(
                          Arr([k \in 1..Len(dir_path_or_dcms) |->
                                  BaseDicomHandler_init(dir_path_or_dcms[k], k - 1)]))
        first == ListGet(dcm_series, 0)
    IN  IF first.raised # "None" THEN first
        ELSE Returned([dcm_dir_path |-> None,
                       dcm_series |-> dcm_series,
                       ref_dcm |-> first.value,
                       identity_map |-> <<>>])

VolumeDicomHandler_columns(self) == BaseDicomHandler_columns(self.ref_dcm)

VolumeDicomHandler_rows(self) == BaseDicomHandler_rows(self.ref_dcm)

VolumeDicomHandler_spacing(self) == BaseDicomHandler_spacing(self.ref_dcm)

VolumeDicomHandler_number_of_slices(self) == Len(self.dcm_series)

\* np.array([(columns - 1) / 2, (rows - 1) / 2, number_of_slices / 2]): x
\* and y as numbers, the third item as the np.float64 it is.
VolumeDicomHandler_volume_center_position_px(self) ==
    <<Frac(VolumeDicomHandler_columns(self).value[1] - 1, 2),
      Frac(VolumeDicomHandler_rows(self).value[1] - 1, 2),
      Float(Frac(VolumeDicomHandler_number_of_slices(self), 2))>>

\* int(int_part) of math.modf: the integer part, rounded toward zero.
Trunc(q) == IF q[1] >= 0 THEN q[1] \div q[2] ELSE 0 - ((0 - q[1]) \div q[2])

VolumeDicomHandler_get_image_position_patient_NoInterpolation(self, idx) ==
    LET dcm == ListGet(self.dcm_series,
                       IF idx.type = "int" THEN idx.value[1] ELSE Trunc(idx.value))
    IN  IF dcm.raised # "None" THEN dcm
        ELSE Returned(BaseDicomHandler_image_position_patient(dcm.value))

\* idx is an int or a float.
VolumeDicomHandler_get_image_position_patient(self, idx) ==
    IF idx.type = "int"
    THEN LET dcm == ListGet(self.dcm_series, idx.value[1])
         IN  IF dcm.raised # "None" THEN dcm
             ELSE Returned(BaseDicomHandler_image_position_patient(dcm.value))
    ELSE LET int_part == Trunc(idx.value)
             frac_part == RSub(idx.value, Q(int_part))
         IN  IF RLess(Q(0), frac_part)
             THEN LET dcm1 == ListGet(self.dcm_series, int_part)
                      dcm2 == ListGet(self.dcm_series, int_part + 1)
                  IN  IF dcm1.raised # "None" THEN dcm1
                      ELSE IF BaseDicomHandler_image_position_patient(dcm1.value) = None
                      THEN Raised("TypeError")
                      ELSE IF dcm2.raised # "None" THEN dcm2
                      ELSE IF BaseDicomHandler_image_position_patient(dcm2.value) = None
                      THEN Raised("TypeError")
                      ELSE LET p1 == BaseDicomHandler_image_position_patient(dcm1.value).items
                               p2 == BaseDicomHandler_image_position_patient(dcm2.value).items
                           IN  Returned(PyTuple(
                                   Arr([c \in 1..3 |->
                                       RAdd(p1[c], RMul(RSub(p2[c], p1[c]), frac_part))])))
             ELSE LET dcm == ListGet(self.dcm_series, int_part)
                  IN  IF dcm.raised # "None" THEN dcm
                      ELSE Returned(BaseDicomHandler_image_position_patient(dcm.value))

\* voxel_coordinate is (x, y, z): x and y numbers, z an int or a float.
VolumeDicomHandler_voxel_to_rcs_coordinate(self, voxel_coordinate) ==
    IF BaseDicomHandler_anatomical_orientation_type(self.ref_dcm) = PyStr("QUADRUPED")
    THEN Raised("NotImplementedError")
    ELSE LET x == voxel_coordinate[1]
             y == voxel_coordinate[2]
             z == voxel_coordinate[3]
             pixel_spacing == BaseDicomHandler_pixel_spacing(self.ref_dcm)
             image_orientation == BaseDicomHandler_image_orientation_patient(self.ref_dcm)
             image_position == VolumeDicomHandler_get_image_position_patient(self, z)
         IN  IF image_position.raised # "None" THEN image_position
             ELSE IF image_orientation = None THEN Raised("IndexError")
             ELSE IF pixel_spacing.type # "list" THEN Raised("TypeError")
             ELSE IF image_position.value = None THEN Raised("ValueError")
             ELSE LET M == Transpose(
                               <<VScale(SubSeq(image_orientation.items, 1, 3),
                                        pixel_spacing.items[2]),
                                 VScale(SubSeq(image_orientation.items, 4, 6),
                                        pixel_spacing.items[1]),
                                 QV(<<0, 0, 0>>),
                                 image_position.value.items>>)
                  IN  Returned(MatVec(M, <<x, y, Q(0), Q(1)>>))

VolumeDicomHandler_volume_center_position_mm(self) ==
    VolumeDicomHandler_voxel_to_rcs_coordinate(
        self, VolumeDicomHandler_volume_center_position_px(self))

---------------------------------------------------------------------------
(* The volume as a state machine: the constructor, then the reads.         *)

Axial == PyList(QV(<<1, 0, 0, 0, 1, 0>>))

Coronal == PyList(QV(<<0, 1, 0, 0, 0, -1>>))

\* The datasets the slices are drawn from.  Every one holds Rows, Columns,
\* PixelSpacing and ImageOrientationPatient; the other elements vary.
Datasets ==
    LET common(rows, columns, spacing, orientation) ==
            [e \in {"Rows", "Columns", "PixelSpacing", "ImageOrientationPatient"} |->
                CASE e = "Rows" -> PyInt(rows)
                  [] e = "Columns" -> PyInt(columns)
                  [] e = "PixelSpacing" -> PyList(spacing)
                  [] e = "ImageOrientationPatient" -> orientation]
    IN  {common(4, 6, <<Frac(1, 2), Frac(1, 4)>>, Axial)
            @@ [e \in {"SliceLocation", "ImagePositionPatient", "SliceThickness"} |->
                   CASE e = "SliceLocation" -> Float(Q(30))
                     [] e = "ImagePositionPatient" -> PyList(QV(<<0, 0, 30>>))
                     [] e = "SliceThickness" -> Float(Q(2))],
         common(4, 6, <<Frac(1, 2), Frac(1, 4)>>, Axial)
            @@ [e \in {"SliceLocation", "ImagePositionPatient", "SliceThickness",
                       "SpacingBetweenSlices", "AnatomicalOrientationType"} |->
                   CASE e = "SliceLocation" -> Float(Q(10))
                     [] e = "ImagePositionPatient" -> PyList(QV(<<1, 2, 10>>))
                     [] e = "SliceThickness" -> Float(Q(2))
                     [] e = "SpacingBetweenSlices" -> Float(Q(3))
                     [] e = "AnatomicalOrientationType" -> PyStr("BIPED")],
         common(2, 2, <<Q(1), Q(1)>>, Coronal)
            @@ [e \in {"SliceLocation", "ImagePositionPatient"} |->
                   CASE e = "SliceLocation" -> Float(Q(10))
                     [] e = "ImagePositionPatient" -> PyList(QV(<<4, 0, 40>>))],
         common(3, 5, <<Frac(1, 4), Frac(1, 2)>>, Coronal)
            @@ [e \in {"ImagePositionPatient", "SpacingBetweenSlices"} |->
                   CASE e = "ImagePositionPatient" -> PyList(QV(<<2, 2, 20>>))
                     [] e = "SpacingBetweenSlices" -> Float(Q(0))],
         common(4, 6, <<Frac(1, 2), Frac(1, 4)>>, Axial)
            @@ [e \in {"SliceThickness"} |-> Float(Q(2))],
         common(4, 6, <<Frac(1, 2), Frac(1, 4)>>, Axial)
            @@ [e \in {"SliceLocation", "ImagePositionPatient", "SliceThickness",
                       "AnatomicalOrientationType"} |->
                   CASE e = "SliceLocation" -> Float(Q(20))
                     [] e = "ImagePositionPatient" -> PyList(QV(<<0, 0, 20>>))
                     [] e = "SliceThickness" -> Float(Q(2))
                     [] e = "AnatomicalOrientationType" -> PyStr("QUADRUPED")]}

RECURSIVE DatasetLists(_)
DatasetLists(len) ==
    IF len = 0 THEN {<<>>}
    ELSE {Append(l, d) : l \in DatasetLists(len - 1), d \in Datasets}

\* The third item of a voxel coordinate and the argument of
\* get_image_position_patient: ints and floats from -1 to MaxSlices.
SliceIndices ==
    {PyInt(k) : k \in -1..MaxSlices}
       \cup {Float(Frac(k, 2)) : k \in -2..(2 * MaxSlices)}

VoxelCoordinates == {<<Q(2), Q(0)>>, <<Q(1), Frac(3, 2)>>}

InitVolume ==
    /\ op = "init"
    /\ args = <<>>
    /\ ret = Returned(<<>>)
    /\ CameraIdle

\* volume = VolumeDicomHandler(dcms)
Construct ==
    \E dcms \in UNION {DatasetLists(n) : n \in 0..MaxSlices} :
        LET r == VolumeDicomHandler_init(dcms)
        IN  /\ op = "init"
            /\ op' = "VolumeDicomHandler"
            /\ args' = [dir_path_or_dcms |-> dcms]
            /\ ret' = IF r.raised # "None" THEN r ELSE Returned(None)
            /\ volume' = IF r.raised # "None" THEN volume ELSE r.value
            /\ UNCHANGED <<pc, carms, lists, adapter, lastSet, pixelLog>>

\* A read of the volume, after its construction or after a voxel_array
\* access; no read changes it.
Read(name, arguments, result) ==
    /\ op \in {"VolumeDicomHandler", "voxel_array"}
    /\ volume # NoObject
    /\ op' = name
    /\ args' = arguments
    /\ ret' = result
    /\ UNCHANGED <<pc, carms, lists, adapter, lastSet, volume, pixelLog>>

ReadSpacing ==
    Read("spacing", <<>>, VolumeDicomHandler_spacing(volume))

ReadGetImagePositionPatient ==
    \E idx \in SliceIndices :
        Read("get_image_position_patient", [idx |-> idx],
             VolumeDicomHandler_get_image_position_patient(volume, idx))

ReadVoxelToRcsCoordinate ==
    \E xy \in VoxelCoordinates, z \in SliceIndices :
        Read("voxel_to_rcs_coordinate", [voxel_coordinate |-> <<xy[1], xy[2], z>>],
             VolumeDicomHandler_voxel_to_rcs_coordinate(volume, <<xy[1], xy[2], z>>))

ReadVolumeCenterPositionPx ==
    Read("volume_center_position_px", <<>>,
         Returned(VolumeDicomHandler_volume_center_position_px(volume)))

ReadVolumeCenterPositionMm ==
    Read("volume_center_position_mm", <<>>,
         VolumeDicomHandler_volume_center_position_mm(volume))

NextVolume ==
    \/ Construct
    \/ ReadSpacing
    \/ ReadGetImagePositionPatient
    \/ ReadVoxelToRcsCoordinate
    \/ ReadVolumeCenterPositionPx
    \/ ReadVolumeCenterPositionMm

SpecVolume == InitVolume /\ [][NextVolume]_vars

---------------------------------------------------------------------------
(* Properties of the volume.                                               *)

\* The sort key of the slice at position k (from 1) of the input list:
\* slice location, else third item of image position, else input index.
SliceKey(dcms, k) ==
    IF "SliceLocation" \in DOMAIN dcms[k] THEN dcms[k]["SliceLocation"].value
    ELSE IF "ImagePositionPatient" \in DOMAIN dcms[k]
    THEN dcms[k]["ImagePositionPatient"].items[3]
    ELSE Q(k - 1)

\* C16: after VolumeDicomHandler(dcms) the slice sequence is a permutation
\* of the input in non-decreasing order of key (slice location, else third
\* item of image position, else input index), slices of equal key in their
\* input order.
C16_SlicesSortedStable ==
    (op = "VolumeDicomHandler" /\ ret.raised = "None")
       => LET dcms == args.dir_path_or_dcms
              series == volume.dcm_series
              n == Len(dcms)
          IN  /\ Len(series) = n
              /\ {series[k].id : k \in 1..n} = 0..(n - 1)
              /\ \A k \in 1..n : series[k].dcm = dcms[series[k].id + 1]
              /\ volume.ref_dcm = series[1]
              /\ \A j, k \in 1..n :
                    (j < k)
                       => LET kj == SliceKey(dcms, series[j].id + 1)
                              kk == SliceKey(dcms, series[k].id + 1)
                          IN  /\ ~RLess(kk, kj)
                              /\ (kj = kk) => series[j].id < series[k].id

C16_Witness ==
    /\ op = "VolumeDicomHandler"
    /\ Len(args.dir_path_or_dcms) = 3
    /\ \A k \in 1..3 : "SliceLocation" \in DOMAIN args.dir_path_or_dcms[k]
    /\ [k \in 1..3 |-> args.dir_path_or_dcms[k]["SliceLocation"].value]
          = <<Q(30), Q(10), Q(20)>>
    /\ volume # NoObject
    /\ [k \in 1..3 |-> volume.dcm_series[k].id] = <<1, 2, 0>>
    /\ [k \in 1..3 |-> volume.dcm_series[k].dcm["SliceLocation"].value]
          = <<Q(10), Q(20), Q(30)>>

\* The image position of slice k (from 0) of the volume, as a vector.
PositionOfSlice(k) == volume.dcm_series[k + 1].dcm["ImagePositionPatient"].items

\* C17: for (x, y, z) with 0 <= z <= num_slices - 1, on a volume that is not
\* QUADRUPED and whose slices next to z have an image position,
\* voxel_to_rcs returns x * column spacing * row cosines + y * row spacing *
\* column cosines + position(z), position(z) being slice z's image position
\* for integral z and position[n] + f * (position[n + 1] - position[n]) for
\* z = n + f, 0 < f < 1.
C17_VoxelToRcs ==
    (op = "voxel_to_rcs_coordinate")
       => LET x == args.voxel_coordinate[1]
              y == args.voxel_coordinate[2]
              z == args.voxel_coordinate[3].value
              n == z[1] \div z[2]
              f == RSub(z, Q(n))
              ref == volume.dcm_series[1].dcm
              has(k) == "ImagePositionPatient" \in DOMAIN volume.dcm_series[k + 1].dcm
              position == IF f = Q(0) THEN PositionOfSlice(n)
                          ELSE VAdd(PositionOfSlice(n),
                                    VScale(VSub(PositionOfSlice(n + 1),
                                                PositionOfSlice(n)), f))
          IN  (/\ ~RLess(z, Q(0))
               /\ ~RLess(Q(Len(volume.dcm_series) - 1), z)
               /\ has(n)
               /\ (f # Q(0)) => has(n + 1)
               /\ ("AnatomicalOrientationType" \in DOMAIN ref)
                     => ref["AnatomicalOrientationType"] # PyStr("QUADRUPED"))
              => ret = Returned(
                     VAdd(VAdd(VScale(SubSeq(ref["ImageOrientationPatient"].items, 1, 3),
                                      RMul(x, ref["PixelSpacing"].items[2])),
                               VScale(SubSeq(ref["ImageOrientationPatient"].items, 4, 6),
                                      RMul(y, ref["PixelSpacing"].items[1]))),
                          position))

C17_Witness ==
    /\ op = "voxel_to_rcs_coordinate"
    /\ args.voxel_coordinate = <<Q(1), Frac(3, 2), Float(Frac(1, 2))>>
    /\ Len(volume.dcm_series) = 2
    /\ \A k \in 1..2 : "ImagePositionPatient" \in DOMAIN volume.dcm_series[k].dcm
    /\ PositionOfSlice(0) = QV(<<1, 2, 10>>)
    /\ PositionOfSlice(1) = QV(<<0, 0, 30>>)
    /\ ret = Returned(<<Frac(3, 4), Frac(7, 4), Q(20)>>)

\* C18 as claimed: on every volume with at least one slice (here: not
\* QUADRUPED, every slice with an image position) volume_center_position_px
\* is ((columns - 1) / 2, (rows - 1) / 2, num_slices / 2), and
\* volume_center_position_mm returns without error the voxel-to-RCS map of
\* that centre.
C18_VolumeCentreReturns ==
    LET n == Len(volume.dcm_series)
        ref == volume.dcm_series[1].dcm
        centre == <<Frac(ref["Columns"].value[1] - 1, 2),
                    Frac(ref["Rows"].value[1] - 1, 2),
                    Float(Frac(n, 2))>>
    IN  /\ (op = "volume_center_position_px") => ret = Returned(centre)
        /\ (/\ op = "volume_center_position_mm"
            /\ \A k \in 1..n :
                  "ImagePositionPatient" \in DOMAIN volume.dcm_series[k].dcm
            /\ ("AnatomicalOrientationType" \in DOMAIN ref)
                  => ref["AnatomicalOrientationType"] # PyStr("QUADRUPED"))
           => /\ ret.raised = "None"
              /\ ret = VolumeDicomHandler_voxel_to_rcs_coordinate(volume, centre)

\* C19: the spacing of the volume is that of its first slice in sorted
\* order: [row spacing, column spacing, s] with s the spacing between
\* slices when the element is present, else the slice thickness; with
\* neither present the read raises and returns no value.
C19_Spacing ==
    (op = "spacing")
       => LET first == volume.dcm_series[1].dcm
              pixel_spacing == first["PixelSpacing"].items
          IN  IF "SpacingBetweenSlices" \in DOMAIN first
              THEN ret = Returned(PyList(<<pixel_spacing[1], pixel_spacing[2],
                                           first["SpacingBetweenSlices"].value>>))
              ELSE IF "SliceThickness" \in DOMAIN first
              THEN ret = Returned(PyList(<<pixel_spacing[1], pixel_spacing[2],
                                           first["SliceThickness"].value>>))
              ELSE ret = Raised("ValueError")

C19_Witness ==
    /\ op = "spacing"
    /\ Len(volume.dcm_series) = 2
    /\ volume.dcm_series[1].id = 1
    /\ "SpacingBetweenSlices" \in DOMAIN volume.dcm_series[1].dcm
    /\ "SliceThickness" \in DOMAIN volume.dcm_series[1].dcm
    /\ ret = Returned(PyList(<<Frac(1, 2), Frac(1, 4), Q(3)>>))

---------------------------------------------------------------------------
(* The constructor and move_detector with any numbers, degenerate ones      *)
(* included: the code has no check on a distance or a size.                *)

\* sid, sod
Distances == {Q(-1), Q(0), Q(4)}

\* sisod: left out, or a float
OptionalDistances == {None, Float(Q(0)), Float(Q(2))}

\* (rows, columns)
Sizes == {<<4, 4>>, <<0, 4>>, <<2, -1>>}

InitDegenerate ==
    /\ op = "init"
    /\ args = <<>>
    /\ ret = Returned(<<>>)
    /\ pc = <<>>
    /\ lists = PixelSpacings
    /\ carms = <<NoObject, NoObject>>
    /\ adapter = NoObject
    /\ lastSet = <<None, None>>
    /\ volume = NoObject
    /\ pixelLog = NoPixelRead

\* carms[1] = CArm(0, 0, sid, sod, imager_pixel_spacing, rows, columns,
\*                 zeros, sisod)
NewCArm(sid, sod, imager_pixel_spacing, rows, columns, sisod) ==
    /\ carms[1] = NoObject
    /\ op' = "CArm"
    /\ args' = [sid |-> sid, sod |-> sod,
                imager_pixel_spacing |-> imager_pixel_spacing,
                rows |-> rows, columns |-> columns, sisod |-> sisod]
    /\ ret' = Returned(None)
    /\ carms' = [carms EXCEPT ![1] =
                    CArm_init(0, 0, sid, sod, imager_pixel_spacing, rows, columns,
                              QV(<<0, 0, 0>>), sisod)]
    /\ UNCHANGED <<pc, lists, adapter, lastSet, volume, pixelLog>>

NextDegenerate ==
    \/ \E sid, sod \in Distances, l \in ListIds, size \in Sizes,
          sisod \in OptionalDistances :
           NewCArm(sid, sod, l, size[1], size[2], sisod)
    \/ \E sid \in Distances, l \in ListIds : MoveDetector(1, sid, l)
    \/ \E a, b \in SnapshotAngles : Rotate(1, a, b)
    \/ \E t \in Tables : TableMove(1, t)

SpecDegenerate == InitDegenerate /\ [][NextDegenerate]_vars

\* C21 as claimed: in every state each CArm has SID, SOD and SISOD > 0 and
\* rows and columns > 0.
C21_DistancesAndSizesPositive ==
    \A i \in DOMAIN carms :
        (carms[i] # NoObject)
           => /\ RLess(Q(0), carms[i].sid)
              /\ RLess(Q(0), carms[i].sod)
              /\ RLess(Q(0), carms[i].sisod)
              /\ carms[i].rows > 0
              /\ carms[i].columns > 0

---------------------------------------------------------------------------
(* The adapter's source point.                                             *)

\* C22 as claimed: for every table offset the adapter's source_pt is
\* ILA_TO_LPS applied to the wrapped CArm's source_pt.
C22_AdapterSourceIsGantrySource ==
    (carms # <<>>)
       => CArmLPSAdapter_source_pt(adapter)
             = MatVec(ILA_TO_LPS, carms[adapter.carm].source_pt)

\* C22, amended: for every table offset the adapter's source_pt is
\* ILA_TO_LPS applied to the wrapped CArm's table-adjusted source point,
\* source_pt - table_top_position; it is ILA_TO_LPS applied to the CArm's
\* source_pt exactly when the table offset is zero.
C22_AdapterSourceIsAdjustedSource ==
    (carms # <<>>)
       => LET gantry == carms[adapter.carm]
          IN  /\ CArmLPSAdapter_source_pt(adapter)
                    = MatVec(ILA_TO_LPS,
                             VSub(gantry.source_pt, gantry.table_top_position))
              /\ (CArmLPSAdapter_source_pt(adapter)
                      = MatVec(ILA_TO_LPS, gantry.source_pt))
                    <=> (gantry.table_top_position = QV(<<0, 0, 0>>))

C22_Witness ==
    /\ op = "table_move"
    /\ carms[1].table_top_position = QV(<<1, -2, 3>>)
    /\ carms[1].alpha = 90
    /\ CArmLPSAdapter_source_pt(adapter)
          # MatVec(ILA_TO_LPS, carms[1].source_pt)

---------------------------------------------------------------------------
(* The adapter's extrinsic and projection matrices.                        *)

\* C23 as claimed: in every state the adapter's extrinsic_matrix returns
\* [R|T], R the inverse of ILA_TO_LPS @ rotation and T = R applied to minus
\* the source point in LPS, and its projection_matrix returns the intrinsic
\* matrix times that [R|T].
C23_AdapterExtrinsicAndProjectionReturn ==
    (carms # <<>>)
       => LET gantry == carms[adapter.carm]
              R == Inv3(MatMul(ILA_TO_LPS, CArm_rotation(gantry)))
              T == MatVec(R, VNeg(CArmLPSAdapter_source_pt(adapter)))
              RT == Arr([i \in 1..3 |-> Append(R[i], T[i])])
          IN  /\ CArmLPSAdapter_extrinsic_matrix(adapter) = Returned(RT)
              /\ CArmLPSAdapter_projection_matrix(adapter)
                    = Returned(MatMul(CArm_intrinsic_matrix(gantry), RT))

---------------------------------------------------------------------------
(* The order of image positions after sorting.                             *)

\* C24 as claimed: after VolumeDicomHandler(dcms) the third item of image
\* position is non-decreasing throughout or non-increasing throughout along
\* the slice sequence (over the slices that have an image position).
C24_PositionsMonotonic ==
    (op = "VolumeDicomHandler" /\ ret.raised = "None")
       => LET series == volume.dcm_series
              placed == {k \in 1..Len(series) :
                            "ImagePositionPatient" \in DOMAIN series[k].dcm}
              z(k) == series[k].dcm["ImagePositionPatient"].items[3]
          IN  \/ \A j, k \in placed : (j < k) => ~RLess(z(k), z(j))
              \/ \A j, k \in placed : (j < k) => ~RLess(z(j), z(k))

---------------------------------------------------------------------------
(* The voxel stack.  An array is [shape, planes]: planes lists, along the  *)
(* last axis, the input indices of the datasets whose pixel data it holds; *)
(* an array that np.stack made also has the number of its allocation, id.  *)

\* A handler is used for at most MaxAccesses voxel_array accesses.
MaxAccesses == 3

\* self.dcm.pixel_array: the (Rows, Columns) array decoded from the
\* dataset's pixel data (every dataset of the model is an image).
BaseDicomHandler_pixel_array(self) ==
    [shape |-> <<self.dcm["Rows"].value[1], self.dcm["Columns"].value[1]>>,
     planes |-> <<self.id>>]

\* np.stack(arrays, axis=-1) of a non-empty list: the arrays must have one
\* shape.
RECURSIVE Planes(_)
Planes(arrays) ==
    IF arrays = <<>> THEN <<>>
    ELSE arrays[1].planes \o Planes(Tail(arrays))

np_stack(arrays) ==
    IF \E k \in 1..Len(arrays) : arrays[k].shape # arrays[1].shape
    THEN Raised("ValueError")
    ELSE Returned([shape |-> Append(arrays[1].shape, Len(arrays)),
                   planes |-> Planes(arrays)])

\* The result is [self, log, ret]: the handler and the history after the
\* access, and what the access returned.
VolumeDicomHandler_voxel_array_NoStore(self, log) ==
    LET pixel_array_list == Arr([k \in 1..Len(self.dcm_series) |->
                                    BaseDicomHandler_pixel_array(self.dcm_series[k])])
        read == [log EXCEPT !.accesses = @ + 1,
                            !.reads = @ \o Arr([k \in 1..Len(self.dcm_series) |->
                                                   self.dcm_series[k].id])]
        stacked == np_stack(pixel_array_list)
    IN  IF stacked.raised # "None"
        THEN [self |-> self, log |-> read, ret |-> stacked]
        ELSE [self |-> self,
              log |-> [read EXCEPT !.stacks = @ + 1],
              ret |-> Returned([id |-> log.stacks + 1,
                                shape |-> stacked.value.shape,
                                planes |-> stacked.value.planes])]

VolumeDicomHandler_voxel_array(self, log) ==
    IF "voxel_array" \in DOMAIN self.identity_map
    THEN [self |-> self,
          log |-> [log EXCEPT !.accesses = @ + 1],
          ret |-> Returned(self.identity_map["voxel_array"])]
    ELSE LET pixel_array_list ==
                 Arr([k \in 1..Len(self.dcm_series) |->
                         BaseDicomHandler_pixel_array(self.dcm_series[k])])
             read == [log EXCEPT !.accesses = @ + 1,
                                 !.reads = @ \o Arr([k \in 1..Len(self.dcm_series) |->
                                                        self.dcm_series[k].id])]
             stacked == np_stack(pixel_array_list)
         IN  IF stacked.raised # "None"
             THEN [self |-> self, log |-> read, ret |-> stacked]
             ELSE LET voxel_array == [id |-> log.stacks + 1,
                                      shape |-> stacked.value.shape,
                                      planes |-> stacked.value.planes]
                  IN  [self |-> [self EXCEPT !.identity_map =
                                    [name \in {"voxel_array"} |-> voxel_array]],
                       log |-> [read EXCEPT !.stacks = @ + 1],
                       ret |-> Returned(voxel_array)]

\* volume.voxel_array
VoxelArray ==
    /\ volume # NoObject
    /\ pixelLog.accesses < MaxAccesses
    /\ LET r == VolumeDicomHandler_voxel_array(volume, pixelLog)
       IN  /\ op' = "voxel_array"
           /\ args' = [identity_map |-> volume.identity_map]
           /\ ret' = r.ret
           /\ volume' = r.self
           /\ pixelLog' = r.log
    /\ UNCHANGED <<pc, carms, lists, adapter, lastSet>>

NextVoxel ==
    \/ Construct
    \/ VoxelArray
    \/ ReadSpacing
    \/ ReadGetImagePositionPatient
    \/ ReadVoxelToRcsCoordinate
    \/ ReadVolumeCenterPositionPx
    \/ ReadVolumeCenterPositionMm

SpecVoxel == InitVolume /\ [][NextVoxel]_vars

\* The input indices of the slices, in their sorted order.
SliceIds(self) == Arr([k \in 1..Len(self.dcm_series) |-> self.dcm_series[k].id])

\* A step on a handler that holds no stack yet.
C25_FirstAccess ==
    (volume # NoObject /\ "voxel_array" \notin DOMAIN volume.identity_map)
       => /\ (op' = "voxel_array" /\ ret'.raised = "None")
                => /\ ret'.value.planes = SliceIds(volume)
                   /\ ret'.value.shape
                         = <<volume.ref_dcm.dcm["Rows"].value[1],
                             volume.ref_dcm.dcm["Columns"].value[1],
                             Len(volume.dcm_series)>>
                   /\ "voxel_array" \in DOMAIN volume'.identity_map
                   /\ volume'.identity_map["voxel_array"] = ret'.value
                   /\ pixelLog'.reads = pixelLog.reads \o SliceIds(volume)
                   /\ pixelLog'.stacks = pixelLog.stacks + 1
          /\ ~(op' = "voxel_array" /\ ret'.raised = "None")
                => /\ "voxel_array" \notin DOMAIN volume'.identity_map
                   /\ pixelLog'.stacks = pixelLog.stacks

\* A step on a handler that holds its stack.
C25_LaterAccess ==
    (volume # NoObject /\ "voxel_array" \in DOMAIN volume.identity_map)
       => /\ volume'.identity_map = volume.identity_map
          /\ pixelLog'.reads = pixelLog.reads
          /\ pixelLog'.stacks = pixelLog.stacks
          /\ (pixelLog'.accesses # pixelLog.accesses)
                => /\ op' = "voxel_array"
                   /\ ret' = Returned(volume.identity_map["voxel_array"])

\* C25: on one VolumeDicomHandler the stack is assembled at most once.  The
\* first voxel_array access that returns gives the slices' pixel arrays
\* stacked in sorted slice order along the last axis and stores that array;
\* every later access returns the stored array and reads no pixel data; no
\* step of another operation stores, clears or replaces the array.
C25_VoxelStackAssembledOnce ==
    [][/\ C25_FirstAccess
       /\ C25_LaterAccess
       /\ pixelLog'.stacks <= 1
       /\ (volume # NoObject) => (volume'.dcm_series = volume.dcm_series)]_vars

\* A second access has returned the stored stack of three slices that the
\* constructor reordered; the pixel data were read once, in sorted order,
\* and another operation ran between the accesses.
C25_Witness ==
    /\ op = "voxel_array"
    /\ pixelLog.accesses = 3
    /\ pixelLog.stacks = 1
    /\ pixelLog.reads = <<1, 2, 0>>
    /\ "voxel_array" \in DOMAIN args.identity_map
    /\ ret = Returned(volume.identity_map["voxel_array"])
    /\ ret.value.planes = <<1, 2, 0>>
    /\ ret.value.shape = <<4, 6, 3>>

---------------------------------------------------------------------------
(* What each mutator of the CArm changes.                                  *)

\* The fields of self and of after agree outside the set changed.
OnlyFieldsChanged(self, after, changed) ==
    /\ DOMAIN after = DOMAIN self
    /\ \A f \in (DOMAIN self) \ changed : after[f] = self[f]

\* The same CArm with the table at zero offset.
AtZeroOffset(self) == [self EXCEPT !.table_top_position = QV(<<0, 0, 0>>)]

C26_TableMoveStep ==
    LET i == args'.self
        t == args'.table_top_position
        self == carms[i]
        after == carms'[i]
    IN  /\ OnlyFieldsChanged(self, after, {"table_top_position"})
        /\ after.table_top_position = t
        /\ CArm_rotation(after) = CArm_rotation(self)
        /\ CArm_source_basis_vector_x(after) = CArm_source_basis_vector_x(self)
        /\ CArm_source_basis_vector_y(after) = CArm_source_basis_vector_y(self)
        /\ CArm_source_basis_vector_z(after) = CArm_source_basis_vector_z(self)
        /\ CArm_intrinsic_matrix(after) = CArm_intrinsic_matrix(self)
        /\ CArm_table_top_position_adjusted_source_pt(after)
              = VSub(CArm_table_top_position_adjusted_source_pt(AtZeroOffset(after)), t)
        /\ CArm_detector_center_pt_3d(after)
              = VSub(CArm_detector_center_pt_3d(AtZeroOffset(after)), t)
        /\ CArm_image_origin(after)
              = VSub(CArm_image_origin(AtZeroOffset(after)), t)

C26_RotateStep ==
    LET self == carms[args'.self]
        after == carms'[args'.self]
    IN  /\ OnlyFieldsChanged(self, after, {"alpha", "beta", "source_pt"})
        /\ after.alpha = args'.alpha
        /\ after.beta = args'.beta

C26_MoveDetectorStep ==
    LET self == carms[args'.self]
        after == carms'[args'.self]
    IN  /\ OnlyFieldsChanged(self, after, {"sid", "imager_pixel_spacing"})
        /\ after.sid = args'.sid
        /\ after.imager_pixel_spacing = args'.imager_pixel_spacing

\* The gantry of SpecCArm under its mutators alone.
NextMutators ==
    \/ \E a, b \in Angles : Rotate(1, a, b)
    \/ \E t \in Tables : TableMove(1, t)
    \/ \E sid \in Sids, l \in ListIds : MoveDetector(1, sid, l)
    \/ \E o \in TargetObjects \cup {None} : SetTargetObject(1, o)

SpecMutators == InitCArm /\ [][NextMutators]_vars

\* C26: table_move(t) changes only the table offset (the other fields, the
\* rotation, the basis vectors and the intrinsic matrix stay), and the
\* table-adjusted source point, the detector centre and the image origin
\* are their values at zero offset minus t; rotate changes only alpha, beta
\* and the stored source point; move_detector changes only SID and the
\* pixel spacing.  No call changes another object or a list.
C26_MutatorsChangeOnlyTheirFields ==
    [][/\ (op' = "table_move") => C26_TableMoveStep
       /\ (op' = "rotate") => C26_RotateStep
       /\ (op' = "move_detector") => C26_MoveDetectorStep
       /\ (op' \in {"table_move", "rotate", "move_detector"})
             => /\ lists' = lists
                /\ adapter' = adapter
                /\ \A j \in DOMAIN carms : (j # args'.self) => carms'[j] = carms[j]]_vars

\* The table has moved to (1, -2, 3) under a CArm rotated to alpha = 90,
\* beta = 180, with SID 8 and a target object set.
C26_Witness ==
    /\ op = "table_move"
    /\ args.table_top_position = QV(<<1, -2, 3>>)
    /\ carms[1].table_top_position = QV(<<1, -2, 3>>)
    /\ carms[1].alpha = 90
    /\ carms[1].beta = 180
    /\ carms[1].sid = Q(8)
    /\ carms[1].target_object # None
    /\ CArm_image_origin(carms[1]) # CArm_image_origin(AtZeroOffset(carms[1]))

---------------------------------------------------------------------------
(* Back-projection: image_to_world on the gantry of SpecCArm.              *)

\* (n, 2) arrays of pixel coordinates, n = 1..3; among them the principal
\* points (3/2, 3/2) and (5/2, 1/2) of the detectors of Shapes.
PixelSets ==
    {<<<<Q(0), Q(0)>>>>,
     <<<<Q(1), Q(3)>>, <<Frac(3, 2), Frac(3, 2)>>>>,
     <<<<Frac(5, 2), Frac(1, 2)>>, <<Q(-1), Q(2)>>, <<Q(5), Q(0)>>>>}

\* carms[i].image_to_world(pts_2d)
ImageToWorld(i, pts_2d) ==
    /\ carms[i] # NoObject
    /\ op' = "image_to_world"
    /\ args' = [self |-> i, pts_2d |-> pts_2d]
    /\ ret' = Returned(CArm_image_to_world(carms[i], pts_2d))
    /\ UNCHANGED <<pc, carms, lists, adapter, lastSet, volume, pixelLog>>

NextBackProject ==
    \/ \E a, b \in Angles : Rotate(1, a, b)
    \/ \E t \in Tables : TableMove(1, t)
    \/ \E sid \in Sids, l \in ListIds : MoveDetector(1, sid, l)
    \/ \E p \in PixelSets : ImageToWorld(1, p)

SpecBackProject == InitCArm /\ [][NextBackProject]_vars

\* C27: in every CArm state (SID > 0), capture of image_to_world(p) is p for
\* an (N, 2) array p of pixel coordinates, and image_to_world of the
\* principal point ((columns - 1) / 2, (rows - 1) / 2) is
\* detector_center_pt_3d.
C27_BackProjectionRoundTrip ==
    (carms # <<>>)
       => LET self == carms[1]
              principal_pt == <<Frac(self.columns - 1, 2), Frac(self.rows - 1, 2)>>
          IN  /\ RLess(Q(0), self.sid)
              /\ (op = "image_to_world")
                    => CArm_capture(self, NdArray(ret.value)).ret
                          = Returned(args.pts_2d)
              /\ CArm_image_to_world(self, <<principal_pt>>)
                    = <<CArm_detector_center_pt_3d(self)>>

\* Three pixels have been back-projected by a CArm turned to alpha = 90,
\* beta = 180 with the table at (1, -2, 3), to points 8 along the beam from
\* the source.
C27_Witness ==
    /\ op = "image_to_world"
    /\ Len(args.pts_2d) = 3
    /\ carms[1].alpha = 90
    /\ carms[1].beta = 180
    /\ carms[1].sid = Q(8)
    /\ carms[1].table_top_position = QV(<<1, -2, 3>>)
    /\ ret.value # to_homogeneous(args.pts_2d)
    /\ \A k \in 1..3 :
          Dot(VSub(ret.value[k], CArm_table_top_position_adjusted_source_pt(carms[1])),
              CArm_source_basis_vector_z(carms[1])) = Q(8)

---------------------------------------------------------------------------
(* Conversions between coordinate systems and arithmetic with raw          *)
(* operands, on the objects of SpecCoord.                                  *)

\* Raw operands: (3,) arrays, ints and floats.
RawOperands ==
    {NdArray(QV(<<1, 2, 3>>)), NdArray(QV(<<0, 0, 0>>)),
     PyInt(2), Float(Frac(1, 2))}

\* pc[i].change_coordinate_system(new_system)
CallChangeCoordinateSystem(i, new_system) ==
    LET r == PatientCoordinates_change_coordinate_system(pc[i], new_system)
    IN  /\ op' = "change_coordinate_system"
        /\ args' = [self |-> i, new_system |-> new_system, before |-> pc,
                    same |-> r.same]
        /\ ret' = r.ret
        /\ pc' = [pc EXCEPT ![i] = r.self]
        /\ UNCHANGED <<carms, lists, adapter, lastSet, volume, pixelLog>>

\* pc[i] + v, pc[i] - v, pc[i] * v for a raw operand v
CallAddRaw(i, v) ==
    LET r == PatientCoordinates_add(pc[i], v)
    IN  /\ op' = "add"
        /\ args' = [self |-> i, operand |-> v, before |-> pc]
        /\ ret' = r.ret
        /\ pc' = [pc EXCEPT ![i] = r.self]
        /\ UNCHANGED <<carms, lists, adapter, lastSet, volume, pixelLog>>

CallSubRaw(i, v) ==
    LET r == PatientCoordinates_sub(pc[i], v)
    IN  /\ op' = "sub"
        /\ args' = [self |-> i, operand |-> v, before |-> pc]
        /\ ret' = r.ret
        /\ pc' = [pc EXCEPT ![i] = r.self]
        /\ UNCHANGED <<carms, lists, adapter, lastSet, volume, pixelLog>>

CallMulRaw(i, v) ==
    /\ op' = "mul"
    /\ args' = [self |-> i, operand |-> v, before |-> pc]
    /\ ret' = CoordinateBase_mul(pc[i], v)
    /\ UNCHANGED <<pc, carms, lists, adapter, lastSet, volume, pixelLog>>

NextConvert ==
    \/ \E i \in 1..2, s \in CoordinateSystem \cup NotAMember :
           CallChangeCoordinateSystem(i, s)
    \/ \E i \in 1..2, v \in RawOperands : CallAddRaw(i, v)
    \/ \E i \in 1..2, v \in RawOperands : CallSubRaw(i, v)
    \/ \E i \in 1..2, v \in RawOperands : CallMulRaw(i, v)

SpecConvert == InitCoord /\ [][NextConvert]_vars

\* C28: for all coordinate systems A, B, C the matrix for (B, C) times the
\* matrix for (A, B) is the matrix for (A, C); a point converted from A to B
\* holds the matrix for (A, B) applied to it, tagged B, and converting it on
\* to C gives what converting the original to C gives.
C28_PathConsistent ==
    /\ \A A, B, C \in CoordinateSystem :
          MatMul(get_coordinate_transform_matrix(B, C).value,
                 get_coordinate_transform_matrix(A, B).value)
             = get_coordinate_transform_matrix(A, C).value
    /\ (op = "change_coordinate_system" /\ args.new_system \in CoordinateSystem)
          => LET p == args.before[args.self]
             IN  /\ ret.raised = "None"
                 /\ pc = args.before
                 /\ ret.value.coord_system = args.new_system
                 /\ ret.value.coords
                       = MatVec(get_coordinate_transform_matrix(
                                    p.coord_system, args.new_system).value,
                                p.coords)
                 /\ \A C \in CoordinateSystem :
                       PatientCoordinates_change_coordinate_system(ret.value, C).ret
                          = PatientCoordinates_change_coordinate_system(p, C).ret

\* (0, 1, 1) in LPS has been converted to ILA: (-1, 0, -1).
C28_Witness ==
    /\ op = "change_coordinate_system"
    /\ args.self = 1
    /\ args.before[1] = PatientCoordinates_init(QV(<<0, 1, 1>>), "LPS")
    /\ args.new_system = "ILA"
    /\ ret = Returned(PatientCoordinates_init(QV(<<-1, 0, -1>>), "ILA"))

\* C30 as claimed: p + v, p - v and p * v, v a raw array or scalar, return a
\* new PatientCoordinates in p's coordinate system holding the componentwise
\* result, and leave p unchanged.
C30_RawArithmeticKeepsTag ==
    (op \in {"add", "sub", "mul"} /\ "operand" \in DOMAIN args)
       => LET p == args.before[args.self]
              v == Broadcast(args.operand)
          IN  /\ pc = args.before
              /\ ret.raised = "None"
              /\ ret.value.coord_system = p.coord_system
              /\ ret.value.coords
                    = CASE op = "add" -> VAdd(p.coords, v)
                        [] op = "sub" -> VSub(p.coords, v)
                        [] op = "mul" -> VMul(p.coords, v)

---------------------------------------------------------------------------
(* The slice indices get_image_position_patient accepts.                   *)

\* C29 as claimed: get_image_position_patient(idx) returns only for
\* 0 <= idx <= num_slices - 1; for a negative int, a negative float or a
\* float above num_slices - 1 it fails.
C29_OutOfRangeIndexFails ==
    (op = "get_image_position_patient")
       => LET n == Len(volume.dcm_series)
              inside == /\ ~RLess(args.idx.value, Q(0))
                        /\ ~RLess(Q(n - 1), args.idx.value)
          IN  (~inside) => (ret.raised # "None")

====
